---- MODULE Spec2Model ----
(***************************************************************************)
(* A model of the browser client of the AI code review assistant: the      *)
(* session store (localStorage + AuthContext), the axios interceptors,     *)
(* the route guards, the sign-up form, the imported-repositories page, the *)
(* connected-accounts page, the profile page, the GitHub page and the      *)
(* submissions page.                                                       *)
(*                                                                         *)
(* One action is one JavaScript task: an event handler up to its first     *)
(* await, or the continuation that runs when a response arrives.           *)
(***************************************************************************)
EXTENDS Naturals, Sequences, FiniteSets

VARIABLES
    storage,      \* localStorage: the "access" and "refresh" entries ("null" = absent)
    user,         \* AuthContext user state: TRUE (true) or FALSE (null)
    pathname,     \* window.location.pathname of the live document
    pendingNav,   \* a full-page navigation set by window.location.href and not yet committed
    inflight,     \* requests sent through the axios instance and not yet answered
    loading,      \* SignUp component state `loading`
    last,         \* the task that ran last: what it was, what it answered, what it showed
    srvRepos,     \* backend: the imported repositories of the current user
    repositories, \* ImportedRepos component state `repositories`
    syncing,      \* ImportedRepos component state `syncing`
    calls,        \* ImportedRepos: requests not yet answered, with the closure of their handler
    repoPage,     \* which of the two repository pages is mounted
    srvAccounts,  \* backend: the linked accounts of the current user
    accounts,     \* ConnectedAccounts component state `accounts`
    acctCalls,    \* ConnectedAccounts: requests not yet answered
    lastAcct,     \* ConnectedAccounts: the task that ran last
    srvLabels,    \* backend: the label of each linked account (its length)
    labels,       \* ConnectedAccounts: the labels of the listed accounts (acc.label)
    editingLabel, \* ConnectedAccounts component state `editingLabel`
    labelValue,   \* ConnectedAccounts component state `labelValue` (its length)
    labelCalls,   \* ConnectedAccounts: label and list requests not yet answered
    srvProfile,   \* backend: the profile of the current user
    profile,      \* Profile component state `profile`
    originalProfile, \* Profile component state `originalProfile`
    preview,      \* Profile component state `preview`
    isEditing,    \* Profile component state `isEditing`
    profLoading,  \* Profile component state `loading`
    readers,      \* Profile: FileReaders that have not called onloadend yet
    profileCalls, \* Profile: requests not yet answered
    lastForm,     \* Profile: the task that ran last
    githubConnected, \* GitHubRepos component state `githubConnected`
    githubAccounts,  \* GitHubRepos component state `githubAccounts` (their uids)
    selectedAccount, \* GitHubRepos component state `selectedAccount` (0 = null)
    repos,        \* GitHubRepos component state `repos`
    ghLoading,    \* GitHubRepos component state `loading`
    importing,    \* GitHubRepos component state `importing`
    ghCalls,      \* GitHubRepos: requests not yet answered
    lastGh,       \* GitHubRepos: the task that ran last
    srvSubmissions, \* backend: the number of submissions of the user, per language
    code,         \* SubmitCode component state `code`
    language,     \* SubmitCode component state `language`
    submissions,  \* SubmitCode component state `submissions`: which list is shown
    subLoading,   \* SubmitCode component state `loading`
    page,         \* SubmitCode component state `page`
    totalPages,   \* SubmitCode component state `totalPages`
    filters,      \* SubmitCode component state `filters`
    subCalls,     \* SubmitCode: requests not yet answered
    lastSub       \* SubmitCode: the task that ran last

sessionVars == <<storage, user, pathname, pendingNav, inflight, loading, last>>
repoVars    == <<srvRepos, repositories, syncing, calls, repoPage>>
acctVars    == <<srvAccounts, accounts, acctCalls, lastAcct>>
labelVars   == <<srvLabels, labels, editingLabel, labelValue, labelCalls>>
profileVars == <<srvProfile, profile, originalProfile, preview, isEditing, profLoading,
                 readers, profileCalls, lastForm>>
ghVars      == <<githubConnected, githubAccounts, selectedAccount, repos, ghLoading,
                 importing, ghCalls, lastGh>>
subVars     == <<srvSubmissions, code, language, submissions, subLoading, page, totalPages,
                 filters, subCalls, lastSub>>
pageVars    == <<ghVars, subVars>>
formVars    == <<labelVars, profileVars, pageVars>>
vars        == <<storage, user, pathname, pendingNav, inflight, loading, last,
                 srvRepos, repositories, syncing, calls, repoPage,
                 srvAccounts, accounts, acctCalls, lastAcct,
                 srvLabels, labels, editingLabel, labelValue, labelCalls,
                 srvProfile, profile, originalProfile, preview, isEditing, profLoading,
                 readers, profileCalls, lastForm,
                 githubConnected, githubAccounts, selectedAccount, repos, ghLoading,
                 importing, ghCalls, lastGh,
                 srvSubmissions, code, language, submissions, subLoading, page, totalPages,
                 filters, subCalls, lastSub>>

(***************************************************************************)
(* Bounds of the model.                                                    *)
(***************************************************************************)
MaxInflight == 2

Min(S) == CHOOSE x \in S : \A y \in S : x <= y

(***************************************************************************)
(* Values.                                                                 *)
(***************************************************************************)
Null == "null"

\* a JavaScript string used as a condition: null and "" are falsy
Truthy(v) == v \notin {Null, ""}

\* the credential pairs the backend issues
IssuedPairs == { [access |-> "T1", refresh |-> "R1"], [access |-> "T2", refresh |-> "R2"] }

NoTokens == [access |-> Null, refresh |-> Null]

(***************************************************************************)
(* URLs, as the sequence of their path segments: "/api/auth/login/" is     *)
(* <<"api", "auth", "login">>.                                             *)
(***************************************************************************)
UrlLogin        == <<"api", "auth", "login">>
UrlRegistration == <<"api", "auth", "registration">>
UrlGoogle       == <<"api", "auth", "google">>
UrlGithubLogin  == <<"accounts", "github", "login">>
UrlSubmissions  == <<"api", "submissions">>
UrlRepositories == <<"api", "repositories">>
UrlSync         == <<"api", "repositories", "1", "sync">>
UrlProfile      == <<"api", "auth", "profile">>
UrlGithubStatus == <<"api", "auth", "github", "status">>
UrlAccounts     == <<"api", "auth", "connected-accounts">>

\* String.prototype.includes, on segment sequences
Includes(s, t) ==
    /\ Len(t) <= Len(s)
    /\ \E i \in 0..(Len(s) - Len(t)) : SubSeq(s, i + 1, i + Len(t)) = t

publicEndpoints == { UrlLogin, UrlRegistration, UrlGoogle, UrlGithubLogin }

isPublicEndpoint(url) == \E endpoint \in publicEndpoints : Includes(url, endpoint)

\* a variant that sends the refresh token as the bearer credential
RequestHeaderWithRefresh(url, store) ==
    IF ~(\E endpoint \in publicEndpoints : Includes(url, endpoint))
    THEN IF store.refresh \notin {Null, ""} THEN <<"Bearer", store.refresh>> ELSE <<>>
    ELSE <<>>

\* the request interceptor: the Authorization header it puts on a request,
\* <<>> when it puts none
RequestHeader(url, store) ==
    IF ~isPublicEndpoint(url)
    THEN IF Truthy(store.access) THEN <<"Bearer", store.access>> ELSE <<>>
    ELSE <<>>

(***************************************************************************)
(* Routes.                                                                 *)
(***************************************************************************)
PublicPages    == { "/login", "/signup" }
ProtectedPages == { "/", "/profile", "/github", "/repositories", "/connected-accounts" }
Pages          == PublicPages \cup ProtectedPages

\* a variant that renders its children whatever the flag
ProtectedRouteOpen(path, u) == path

ProtectedRoute(path, u) == IF ~u THEN "/login" ELSE path

\* a variant that redirects the visitors without the flag
PublicRouteInverted(path, u) == IF ~u THEN "/" ELSE path

PublicRoute(path, u) == IF u THEN "/" ELSE path

\* one rendering of <Routes> at `path`: the page shown, or the redirect taken
Route(path, u) ==
    IF path \in PublicPages THEN PublicRoute(path, u)
    ELSE IF path \in ProtectedPages THEN ProtectedRoute(path, u)
    ELSE IF path = "/github/callback" THEN path
    ELSE "/"

\* the page on which the redirects end
Settle(path, u) == Route(Route(Route(path, u), u), u)

\* the request a page sends from its mount effect (<<>>: none)
MountUrl(path) ==
    CASE path = "/"                   -> UrlSubmissions
      [] path = "/repositories"       -> UrlRepositories
      [] path = "/profile"            -> UrlProfile
      [] path = "/github"             -> UrlGithubStatus
      [] path = "/connected-accounts" -> UrlAccounts
      [] OTHER                        -> <<>>

(***************************************************************************)
(* Requests in flight: [id, url, auth, op, live]. `op` names the           *)
(* continuation that awaits the answer, `live` says whether the component  *)
(* that sent it is still mounted.                                          *)
(***************************************************************************)
FreeIds(reqs) == (1..MaxInflight) \ { r.id : r \in reqs }

Request(reqs, op, url, store) ==
    [id |-> Min(FreeIds(reqs)), url |-> url, auth |-> RequestHeader(url, store),
     op |-> op, live |-> TRUE]

\* api.get / api.post: the request passes the request interceptor and leaves
Send(reqs, op, url, store) == reqs \cup { Request(reqs, op, url, store) }

\* the components mounted before a navigation are unmounted by it
Unmounted(reqs) == { [r EXCEPT !.live = FALSE] : r \in reqs }

\* mounting the page at `path` runs its mount effect
Mount(reqs, path, store) ==
    IF MountUrl(path) = <<>> THEN reqs ELSE Send(reqs, "fetch", MountUrl(path), store)

\* client-side navigation to `path`, through the route guards
NavigateIn(reqs, from, path, u, store) ==
    IF Settle(path, u) = from THEN reqs
    ELSE Mount(Unmounted(reqs), Settle(path, u), store)

\* what a request looks like on the wire
Wire(reqs) == { [url |-> r.url, auth |-> r.auth] : r \in reqs }

\* the requests of `after` that were sent since `before`
NewOf(before, after) == Wire(after \ (before \cup Unmounted(before)))

\* an error body with none of the fields the pages read: err.response.data, or
\* no response at all
NoBody == [email |-> <<>>, password1 |-> <<>>, non_field_errors |-> <<>>, error |-> Null]

\* the record of a task: the handler that ran, the request it answers (url, status,
\* data, or the body of an error), the toasts it raised, the requests it sent, the
\* arguments it was given and whether the awaiting caller saw a rejection
NoEvent ==
    [ev |-> "none", url |-> <<>>, status |-> 0, data |-> [access |-> Null, refresh |-> Null],
     toast |-> {}, sent |-> {}, args |-> <<>>, rejected |-> FALSE, body |-> NoBody]

ToastExpired == "Your session has expired. Please login again."

(***************************************************************************)
(* The response interceptor (api.interceptors.response.use, error branch). *)
(***************************************************************************)
\* a variant that does not look at the allow-list
ExpiredOnAnyEndpoint(status, url) == status = 401

\* the branch that treats the answer as an expired session
Expired(status, url) == status = 401 /\ ~isPublicEndpoint(url)

\* a variant that removes the access token only
InterceptedStoreKeepsRefresh(status, url, store) ==
    IF status = 401 /\ ~isPublicEndpoint(url) THEN [store EXCEPT !.access = Null] ELSE store

\* localStorage after the interceptor has seen the answer
InterceptedStore(status, url, store) ==
    IF Expired(status, url) THEN NoTokens ELSE store

\* window.location after the interceptor has seen the answer
InterceptedNav(status, url, path, nav) ==
    IF Expired(status, url) /\ path # "/login" THEN "/login" ELSE nav

\* the toast the interceptor raises
InterceptedToast(status, url) ==
    IF Expired(status, url) THEN { ToastExpired } ELSE {}

(***************************************************************************)
(* AuthContext.                                                            *)
(***************************************************************************)
\* useState initialiser and the mount effect checkAuth
checkAuth(store) == Truthy(store.access)

\* a variant that stores the access token only
setCredentialsAccessOnly(store, data) == [store EXCEPT !.access = data.access]

\* login / loginWithGoogle / signup after the awaited post has resolved:
\* localStorage.setItem("access", ...), localStorage.setItem("refresh", ...)
setCredentials(store, data) == [store EXCEPT !.access = data.access, !.refresh = data.refresh]

\* a variant that removes the access token only
clearCredentialsAccessOnly(store) == [store EXCEPT !.access = Null]

\* logout: localStorage.clear()
clearCredentials(store) == NoTokens

AuthOps == { "login", "google", "signup" }

(***************************************************************************)
(* The sign-up form.                                                       *)
(***************************************************************************)
MinPasswordLength == 8

Passwords == { "short", "longenough", "longenough2" }

ToastMismatch == "Passwords do not match"
ToastTooShort == "Password must be at least 8 characters long"

\* a variant without the length check
ValidationErrorNoLength(password1, password2) ==
    IF password1 # password2 THEN ToastMismatch ELSE ""

\* the validation of handleSubmit: the error it shows, "" when it passes
ValidationError(password1, password2) ==
    IF password1 # password2 THEN ToastMismatch
    ELSE IF Len(password1) < MinPasswordLength THEN ToastTooShort
    ELSE ""

\* handleSubmit removes both tokens before it calls signup
SubmitStore(store) == NoTokens

(***************************************************************************)
(* The state after the document has loaded.                                *)
(***************************************************************************)
InitSession ==
    /\ storage \in { NoTokens } \cup IssuedPairs
    /\ user = checkAuth(storage)
    /\ \E path \in Pages :
          /\ pathname = Settle(path, user)
          /\ inflight = Mount({}, pathname, storage)
          /\ last = [NoEvent EXCEPT !.ev = "load", !.args = << path >>,
                                    !.sent = Wire(inflight)]
    /\ pendingNav = "none"
    /\ loading = FALSE

\* the session actions leave the pages' own state alone
SessionOnly == UNCHANGED <<repoVars, acctVars, formVars>>

(***************************************************************************)
(* Session actions.                                                        *)
(***************************************************************************)
\* the browser loads the application at `path`: a reload, a typed URL, or the
\* navigation that the response interceptor asked for
PageLoad(path) ==
    /\ \/ pendingNav = "none"
       \/ pendingNav = "/login" /\ path = "/login"
    /\ user' = checkAuth(storage)
    /\ pathname' = Settle(path, user')
    /\ inflight' = Mount({}, pathname', storage)
    /\ pendingNav' = "none"
    /\ loading' = FALSE
    /\ last' = [NoEvent EXCEPT !.ev = "load", !.args = << path >>,
                               !.sent = Wire(inflight')]
    /\ UNCHANGED storage
    /\ SessionOnly

\* a link or a button of the current page calls navigate(path)
Navigate(path) ==
    /\ IF pathname \in PublicPages THEN path \in PublicPages ELSE path \in ProtectedPages
    /\ Settle(path, user) # pathname
    /\ MountUrl(Settle(path, user)) # <<>> => FreeIds(inflight) # {}
    /\ pathname' = Settle(path, user)
    /\ inflight' = NavigateIn(inflight, pathname, path, user, storage)
    /\ loading' = FALSE
    /\ last' = [NoEvent EXCEPT !.ev = "navigate", !.sent = NewOf(inflight, inflight')]
    /\ UNCHANGED <<storage, user, pendingNav>>
    /\ SessionOnly

\* AuthContext.login up to its await, called from the login page
login ==
    /\ pathname = "/login"
    /\ FreeIds(inflight) # {}
    /\ inflight' = Send(inflight, "login", UrlLogin, storage)
    /\ last' = [NoEvent EXCEPT !.ev = "login", !.url = UrlLogin,
                               !.sent = NewOf(inflight, inflight')]
    /\ UNCHANGED <<storage, user, pathname, pendingNav, loading>>
    /\ SessionOnly

\* SignUp.handleGoogleLogin onSuccess: setLoading(true), loginWithGoogle up to its await
loginWithGoogle ==
    /\ pathname = "/signup"
    /\ ~loading
    /\ FreeIds(inflight) # {}
    /\ loading' = TRUE
    /\ inflight' = Send(inflight, "google", UrlGoogle, storage)
    /\ last' = [NoEvent EXCEPT !.ev = "loginWithGoogle", !.url = UrlGoogle,
                               !.sent = NewOf(inflight, inflight')]
    /\ UNCHANGED <<storage, user, pathname, pendingNav>>
    /\ SessionOnly

\* SignUp.handleSubmit up to the await inside signup
handleSubmit(password1, password2) ==
    /\ pathname = "/signup"
    /\ ~loading
    /\ IF ValidationError(password1, password2) # ""
       THEN /\ last' = [NoEvent EXCEPT !.ev = "handleSubmit",
                                       !.args = <<password1, password2>>,
                                       !.toast = { ValidationError(password1, password2) }]
            /\ UNCHANGED <<storage, inflight, loading>>
       ELSE /\ FreeIds(inflight) # {}
            /\ loading' = TRUE
            /\ storage' = SubmitStore(storage)
            /\ inflight' = Send(inflight, "signup", UrlRegistration, storage')
            /\ last' = [NoEvent EXCEPT !.ev = "handleSubmit", !.url = UrlRegistration,
                                       !.args = <<password1, password2>>,
                                       !.sent = NewOf(inflight, inflight')]
    /\ UNCHANGED <<user, pathname, pendingNav>>
    /\ SessionOnly

\* handleLogout of a protected page: logout(), toast, navigate("/login")
logout ==
    /\ pathname \in ProtectedPages
    /\ storage' = clearCredentials(storage)
    /\ user' = FALSE
    /\ pathname' = Settle("/login", user')
    /\ inflight' = Unmounted(inflight)
    /\ loading' = FALSE
    /\ last' = [NoEvent EXCEPT !.ev = "logout", !.toast = { "Logged out successfully" }]
    /\ UNCHANGED pendingNav
    /\ SessionOnly

\* ImportedRepos.handleSync up to its await, as the session sees it
SyncCall ==
    /\ pathname = "/repositories"
    /\ FreeIds(inflight) # {}
    /\ inflight' = Send(inflight, "sync", UrlSync, storage)
    /\ last' = [NoEvent EXCEPT !.ev = "handleSync", !.url = UrlSync,
                               !.sent = NewOf(inflight, inflight')]
    /\ UNCHANGED <<storage, user, pathname, pendingNav, loading>>
    /\ SessionOnly

\* the URL handleConnect(provider) assigns to window.location.href, with its
\* query string as the last segment; <<>> when it assigns none
ConnectUrl(provider) ==
    IF provider = "github" THEN UrlGithubLogin \o << "?process=connect" >> ELSE <<>>

\* ConnectedAccounts.handleConnect(provider): the Connect button of a provider
handleConnect(provider) ==
    /\ pathname = "/connected-accounts"
    /\ pendingNav' = IF ConnectUrl(provider) # <<>> THEN provider ELSE pendingNav
    /\ last' = [NoEvent EXCEPT !.ev = "handleConnect", !.args = << provider >>,
                               !.url = ConnectUrl(provider),
                               !.toast = IF provider = "google"
                                         THEN { "Google connect flow coming soon" } ELSE {}]
    /\ UNCHANGED <<storage, user, pathname, inflight, loading>>
    /\ SessionOnly

\* GitHubRepos.handleConnectGitHub: window.location.href = the provider
handleConnectGitHub ==
    /\ pathname = "/github"
    /\ pendingNav' = "github"
    /\ last' = [NoEvent EXCEPT !.ev = "handleConnectGitHub", !.url = UrlGithubLogin]
    /\ UNCHANGED <<storage, user, pathname, inflight, loading>>
    /\ SessionOnly

\* a variant that stores whichever token the URL carries
CallbackStoreAnyToken(store, access, refresh) ==
    [store EXCEPT !.access = IF access \notin {Null, ""} THEN access ELSE @,
                  !.refresh = IF refresh \notin {Null, ""} THEN refresh ELSE @]

\* the effect of GitHubCallback on localStorage
CallbackStore(store, access, refresh) ==
    IF Truthy(access) /\ Truthy(refresh)
    THEN [store EXCEPT !.access = access, !.refresh = refresh]
    ELSE store

\* the route GitHubCallback navigates to
CallbackTarget(access, refresh, fromConnect, isConnectFlow) ==
    IF Truthy(access) /\ Truthy(refresh)
    THEN IF fromConnect = "true" THEN "/github" ELSE "/"
    ELSE IF isConnectFlow THEN "/github" ELSE "/login"

\* a variant in which the flag is the one the useState initialiser computed
GitHubCallbackInitOnly(access, refresh, fromConnect, isConnectFlow) ==
    /\ pendingNav \in { "none", "github" }
    /\ storage' = CallbackStore(storage, access, refresh)
    /\ user' = checkAuth(storage)
    /\ pathname' = Settle(CallbackTarget(access, refresh, fromConnect, isConnectFlow), user')
    /\ inflight' = Mount({}, pathname', storage')
    /\ pendingNav' = "none"
    /\ loading' = FALSE
    /\ last' = [NoEvent EXCEPT !.ev = "GitHubCallback", !.sent = Wire(inflight'),
                               !.data = [access |-> access, refresh |-> refresh],
                               !.args = << fromConnect, isConnectFlow,
                                           CallbackTarget(access, refresh, fromConnect,
                                                          isConnectFlow),
                                           checkAuth(storage) >>]
    /\ SessionOnly

\* the document loads at /github/callback?access=..&refresh=..&from_connect=..:
\* AuthProvider initialises (the flag of the useState initialiser is kept in the
\* record of the task), the effect of GitHubCallback runs, then the mount effect
\* of AuthProvider (checkAuth: the effects of a child run before its parent's),
\* and the routes render
GitHubCallback(access, refresh, fromConnect, isConnectFlow) ==
    /\ pendingNav \in { "none", "github" }
    /\ storage' = CallbackStore(storage, access, refresh)
    /\ user' = checkAuth(storage')
    /\ pathname' = Settle(CallbackTarget(access, refresh, fromConnect, isConnectFlow), user')
    /\ inflight' = Mount({}, pathname', storage')
    /\ pendingNav' = "none"
    /\ loading' = FALSE
    /\ last' = [NoEvent EXCEPT !.ev = "GitHubCallback", !.sent = Wire(inflight'),
                               !.data = [access |-> access, refresh |-> refresh],
                               !.args = << fromConnect, isConnectFlow,
                                           CallbackTarget(access, refresh, fromConnect,
                                                          isConnectFlow),
                                           checkAuth(storage) >>]
    /\ SessionOnly

\* the statuses the backend can answer a request with
Statuses(rq) ==
    IF isPublicEndpoint(rq.url) THEN { 200, 400, 401 }
    ELSE IF rq.auth = <<>> THEN { 401 }
    ELSE { 200, 401, 500 }

\* the answer to an auth request resolves: the tail of login / loginWithGoogle /
\* signup, then the caller's navigate("/")
AuthSuccess(rq, data) ==
    /\ rq \in inflight
    /\ rq.op \in AuthOps
    /\ 200 \in Statuses(rq)
    /\ storage' = setCredentials(storage, data)
    /\ user' = TRUE
    /\ pathname' = Settle("/", user')
    /\ inflight' = NavigateIn(inflight \ { rq }, pathname, "/", user', storage')
    /\ loading' = FALSE
    /\ last' = [NoEvent EXCEPT !.ev = "response", !.url = rq.url, !.status = 200,
                               !.data = data, !.toast = { "Welcome" },
                               !.sent = NewOf(inflight, inflight')]
    /\ UNCHANGED pendingNav
    /\ SessionOnly

\* the answer to a page's request resolves; handleSync then calls fetchImportedRepos
CallSuccess(rq) ==
    /\ rq \in inflight
    /\ rq.op \notin AuthOps
    /\ 200 \in Statuses(rq)
    /\ inflight' = IF rq.op = "sync"
                   THEN Send(inflight \ { rq }, "fetch", UrlRepositories, storage)
                   ELSE inflight \ { rq }
    /\ last' = [NoEvent EXCEPT !.ev = "response", !.url = rq.url, !.status = 200,
                               !.sent = NewOf(inflight, inflight')]
    /\ UNCHANGED <<storage, user, pathname, pendingNav, loading>>
    /\ SessionOnly

\* a variant in which an expired session drops the other requests in flight
CallFailureCancelling(rq, status) ==
    /\ rq \in inflight
    /\ status \in Statuses(rq) \ { 200 }
    /\ storage' = InterceptedStore(status, rq.url, storage)
    /\ pendingNav' = InterceptedNav(status, rq.url, pathname, pendingNav)
    /\ inflight' = IF Expired(status, rq.url) THEN {} ELSE inflight \ { rq }
    /\ loading' = IF rq.op \in { "signup", "google" } /\ rq.live THEN FALSE ELSE loading
    /\ last' = [NoEvent EXCEPT !.ev = "response", !.url = rq.url, !.status = status,
                               !.toast = InterceptedToast(status, rq.url),
                               !.rejected = TRUE]
    /\ UNCHANGED <<user, pathname>>
    /\ SessionOnly

\* the answer is an error: the response interceptor, then the caller's catch
CallFailure(rq, status) ==
    /\ rq \in inflight
    /\ status \in Statuses(rq) \ { 200 }
    /\ storage' = InterceptedStore(status, rq.url, storage)
    /\ pendingNav' = InterceptedNav(status, rq.url, pathname, pendingNav)
    /\ inflight' = inflight \ { rq }
    /\ loading' = IF rq.op \in { "signup", "google" } /\ rq.live THEN FALSE ELSE loading
    /\ last' = [NoEvent EXCEPT !.ev = "response", !.url = rq.url, !.status = status,
                               !.toast = InterceptedToast(status, rq.url),
                               !.rejected = TRUE]
    /\ UNCHANGED <<user, pathname>>
    /\ SessionOnly

(***************************************************************************)
(* The error a failed sign-up shows (SignUp.handleSubmit, catch).          *)
(***************************************************************************)
\* the messages a field of an error body can hold: none, an empty one, one, two
MessageLists == { <<>>, << "" >>, << "first" >>, << "first", "second" >> }

ErrorBodies ==
    [email : MessageLists, password1 : { <<>>, << "weak" >> },
     non_field_errors : { <<>>, << "mismatch" >> }, error : { Null, "", "refused" }]

ToastSignupFailed == "Signup failed. Please try again."

\* data?.field?.[0]: undefined ("null") when the list is absent or empty
FirstOf(list) == IF Len(list) > 0 THEN list[1] ELSE Null

\* a || b
OrElse(a, b) == IF Truthy(a) THEN a ELSE b

\* a variant that reads the error field before the field-specific lists
ErrorMessageErrorFirst(body) ==
    OrElse(body.error,
    OrElse(FirstOf(body.email),
    OrElse(FirstOf(body.password1),
    OrElse(FirstOf(body.non_field_errors), ToastSignupFailed))))

\* errorMessage of handleSubmit's catch
ErrorMessage(body) ==
    OrElse(FirstOf(body.email),
    OrElse(FirstOf(body.password1),
    OrElse(FirstOf(body.non_field_errors),
    OrElse(body.error, ToastSignupFailed))))

\* the answer to the sign-up request is an error with `body` (status 0: no answer
\* at all, err.response is undefined): the response interceptor, then the catch
\* and the finally of handleSubmit
SignupFailure(rq, status, body) ==
    /\ rq \in inflight /\ rq.op = "signup"
    /\ status \in (Statuses(rq) \ { 200 }) \cup { 0 }
    /\ status = 0 => body = NoBody
    /\ storage' = InterceptedStore(status, rq.url, storage)
    /\ pendingNav' = InterceptedNav(status, rq.url, pathname, pendingNav)
    /\ inflight' = inflight \ { rq }
    /\ loading' = IF rq.live THEN FALSE ELSE loading
    /\ last' = [NoEvent EXCEPT !.ev = "response", !.url = rq.url, !.status = status,
                               !.body = body,
                               !.toast = InterceptedToast(status, rq.url)
                                           \cup { ErrorMessage(body) },
                               !.rejected = TRUE]
    /\ UNCHANGED <<user, pathname>>
    /\ SessionOnly

(***************************************************************************)
(* The GitHub page (GitHubRepos: import), the imported-repositories page   *)
(* (ImportedRepos: list, sync) and the backend's repository records.       *)
(*                                                                         *)
(* A call is [id, kind, repo, phase, ok, data, closure, live]: `phase` is  *)
(* "sent" (on its way), "running" (a sync the backend has started) or      *)
(* "done" (answered, the answer on its way back); `closure` is the value   *)
(* of `syncing` the handler that sent it closed over; `live` says whether  *)
(* the component that sent it is still mounted.                            *)
(***************************************************************************)
MaxRepos == 2
MaxCalls == 2

RepoIds == 1..MaxRepos

\* the empty object {} / the empty list []
Empty == <<>>

\* backend: the record of a repository at import time
ImportedRecord == [status |-> "pending", last_synced |-> Null, last_sync_error |-> Null]

\* a variant that does not mark the repository as syncing
SyncStartedUnmarked(rec) == rec

\* backend: a sync request has been accepted
SyncStarted(rec) == [rec EXCEPT !.status = "syncing"]

\* backend: a sync has completed
SyncEnded(rec, ok) ==
    IF ok THEN [rec EXCEPT !.status = "success", !.last_synced = "2026-01-01T00:00:00Z"]
    ELSE [rec EXCEPT !.status = "failed", !.last_sync_error = "sync failed"]

\* { ...obj, [key]: value }
Spread(obj, key, value) ==
    [k \in DOMAIN obj \cup { key } |-> IF k = key THEN value ELSE obj[k]]

FreeCallIds(cs) == (1..MaxCalls) \ { c.id : c \in cs }

NewCall(cs, kind, repo, closure) ==
    [id |-> Min(FreeCallIds(cs)), kind |-> kind, repo |-> repo, phase |-> "sent",
     ok |-> FALSE, data |-> Empty, closure |-> closure, live |-> TRUE]

\* the answer the backend gives to a call
Answer(cs, c, ok, data) ==
    (cs \ { c }) \cup { [c EXCEPT !.phase = "done", !.ok = ok, !.data = data] }

\* fetchImportedRepos up to its await: api.get("/api/repositories/")
fetchImportedRepos(cs, live) ==
    cs \cup { [NewCall(cs, "fetch", 0, Empty) EXCEPT !.live = live] }

\* the calls of the components that a navigation unmounts
Detached(cs) == { [c EXCEPT !.live = FALSE] : c \in cs }

\* a variant that keeps the records it shows and takes only the new status
ShownListMergingStatus(shown, data) ==
    [r \in DOMAIN data |->
        IF r \in DOMAIN shown THEN [shown[r] EXCEPT !.status = data[r].status] ELSE data[r]]

\* a variant in which a list that is already shown is not replaced
ShownListKeepingFirst(shown, data) == IF shown = <<>> THEN data ELSE shown

\* setRepositories(res.data.results || res.data)
ShownList(shown, data) == data

\* disabled={syncing[repo.id]}
SyncDisabled(repoId) == repoId \in DOMAIN syncing /\ syncing[repoId]

InitRepos ==
    /\ repoPage = "/github"
    /\ srvRepos = Empty
    /\ repositories = Empty
    /\ syncing = Empty
    /\ calls = {}

\* the actions of these pages leave the session and the accounts page alone
ReposOnly == UNCHANGED <<sessionVars, acctVars, formVars>>

\* navigate("/repositories"): ImportedRepos mounts with fresh state and its mount
\* effect fetches the list (also: the page is left and entered again)
MountImportedRepos ==
    /\ FreeCallIds(calls) # {}
    /\ repoPage' = "/repositories"
    /\ repositories' = Empty
    /\ syncing' = Empty
    /\ calls' = fetchImportedRepos(Detached(calls), TRUE)
    /\ UNCHANGED srvRepos
    /\ ReposOnly

\* navigate("/github"): ImportedRepos unmounts, GitHubRepos mounts
MountGitHubRepos ==
    /\ repoPage = "/repositories"
    /\ repoPage' = "/github"
    /\ repositories' = Empty
    /\ syncing' = Empty
    /\ calls' = Detached(calls)
    /\ UNCHANGED srvRepos
    /\ ReposOnly

\* GitHubRepos.handleImportRepo up to its await: api.post("/api/repositories/import/")
handleImportRepo(repoId) ==
    /\ repoPage = "/github"
    /\ FreeCallIds(calls) # {}
    /\ calls' = calls \cup { NewCall(calls, "import", repoId, Empty) }
    /\ UNCHANGED <<repoPage, srvRepos, repositories, syncing>>
    /\ ReposOnly

\* a variant that refuses a repository whose status is syncing
handleSyncUnlessSyncing(repoId) ==
    /\ repoPage = "/repositories"
    /\ repoId \in DOMAIN repositories
    /\ repositories[repoId].status # "syncing"
    /\ ~SyncDisabled(repoId)
    /\ FreeCallIds(calls) # {}
    /\ syncing' = Spread(syncing, repoId, TRUE)
    /\ calls' = calls \cup { NewCall(calls, "sync", repoId, syncing) }
    /\ UNCHANGED <<repoPage, srvRepos, repositories>>
    /\ ReposOnly

\* the Sync button of a listed repository: handleSync up to its await
handleSync(repoId) ==
    /\ repoPage = "/repositories"
    /\ repoId \in DOMAIN repositories
    /\ ~SyncDisabled(repoId)
    /\ FreeCallIds(calls) # {}
    /\ syncing' = Spread(syncing, repoId, TRUE)
    /\ calls' = calls \cup { NewCall(calls, "sync", repoId, syncing) }
    /\ UNCHANGED <<repoPage, srvRepos, repositories>>
    /\ ReposOnly

\* backend: answers GET /api/repositories/ with the records it holds, or fails
ServerList(c, ok) ==
    /\ c \in calls /\ c.kind = "fetch" /\ c.phase = "sent"
    /\ calls' = Answer(calls, c, ok, IF ok THEN srvRepos ELSE Empty)
    /\ UNCHANGED <<repoPage, srvRepos, repositories, syncing>>
    /\ ReposOnly

\* backend: imports the repository, or answers AlreadyImported / UpstreamError
ServerImport(c, upstreamOk) ==
    /\ c \in calls /\ c.kind = "import" /\ c.phase = "sent"
    /\ LET ok == upstreamOk /\ c.repo \notin DOMAIN srvRepos
       IN /\ srvRepos' = IF ok THEN Spread(srvRepos, c.repo, ImportedRecord) ELSE srvRepos
          /\ calls' = Answer(calls, c, ok, Empty)
    /\ UNCHANGED <<repoPage, repositories, syncing>>
    /\ ReposOnly

\* backend: accepts a sync request and marks the repository as syncing
ServerBeginSync(c) ==
    /\ c \in calls /\ c.kind = "sync" /\ c.phase = "sent"
    /\ c.repo \in DOMAIN srvRepos
    /\ srvRepos' = [srvRepos EXCEPT ![c.repo] = SyncStarted(@)]
    /\ calls' = (calls \ { c }) \cup { [c EXCEPT !.phase = "running"] }
    /\ UNCHANGED <<repoPage, repositories, syncing>>
    /\ ReposOnly

\* backend: the sync completes, with success or with failure
ServerEndSync(c, ok) ==
    /\ c \in calls /\ c.kind = "sync" /\ c.phase = "running"
    /\ srvRepos' = [srvRepos EXCEPT ![c.repo] = SyncEnded(@, ok)]
    /\ calls' = Answer(calls, c, ok, Empty)
    /\ UNCHANGED <<repoPage, repositories, syncing>>
    /\ ReposOnly

\* fetchImportedRepos after its await
FetchAnswered(c) ==
    /\ c \in calls /\ c.kind = "fetch" /\ c.phase = "done"
    /\ repositories' = IF c.ok /\ c.live THEN ShownList(repositories, c.data) ELSE repositories
    /\ calls' = calls \ { c }
    /\ UNCHANGED <<repoPage, srvRepos, syncing>>
    /\ ReposOnly

\* a variant that sends the sync again when it has failed
AfterSyncRetrying(cs, c) ==
    IF c.ok THEN fetchImportedRepos(cs \ { c }, c.live)
    ELSE (cs \ { c }) \cup { [NewCall(cs \ { c }, "sync", c.repo, c.closure) EXCEPT !.live = c.live] }

\* the calls after handleSync's await: the list is fetched again in the try block only
AfterSync(cs, c) == IF c.ok THEN fetchImportedRepos(cs \ { c }, c.live) ELSE cs \ { c }

\* handleSync after its await: try / catch / finally
SyncAnswered(c) ==
    /\ c \in calls /\ c.kind = "sync" /\ c.phase = "done"
    /\ calls' = AfterSync(calls, c)
    /\ syncing' = IF c.live THEN Spread(c.closure, c.repo, FALSE) ELSE syncing
    /\ UNCHANGED <<repoPage, srvRepos, repositories>>
    /\ ReposOnly

\* handleImportRepo after its await: a toast
ImportAnswered(c) ==
    /\ c \in calls /\ c.kind = "import" /\ c.phase = "done"
    /\ calls' = calls \ { c }
    /\ UNCHANGED <<repoPage, srvRepos, repositories, syncing>>
    /\ ReposOnly

NextRepos ==
    \/ MountImportedRepos
    \/ MountGitHubRepos
    \/ \E repoId \in RepoIds : handleImportRepo(repoId)
    \/ \E repoId \in RepoIds : handleSync(repoId)
    \/ \E c \in calls, ok \in BOOLEAN : ServerList(c, ok)
    \/ \E c \in calls, upstreamOk \in BOOLEAN : ServerImport(c, upstreamOk)
    \/ \E c \in calls : ServerBeginSync(c)
    \/ \E c \in calls, ok \in BOOLEAN : ServerEndSync(c, ok)
    \/ \E c \in calls : FetchAnswered(c)
    \/ \E c \in calls : SyncAnswered(c)
    \/ \E c \in calls : ImportAnswered(c)

(***************************************************************************)
(* The connected-accounts page (ConnectedAccounts) and the backend's       *)
(* linked accounts. `accounts` maps a provider to the uids listed for it.  *)
(* A call is [id, kind, provider, uid, phase, error, data].                *)
(***************************************************************************)
MaxUids == 2
MaxAcctCalls == 2

Providers == { "github", "google" }
Uids == 1..MaxUids

NoAccounts == [p \in Providers |-> {}]

FreeAcctIds(cs) == (1..MaxAcctCalls) \ { c.id : c \in cs }

NewAcctCall(cs, kind, provider, uid) ==
    [id |-> Min(FreeAcctIds(cs)), kind |-> kind, provider |-> provider, uid |-> uid,
     phase |-> "sent", error |-> "", data |-> NoAccounts]

AcctAnswer(cs, c, error, data) ==
    (cs \ { c }) \cup { [c EXCEPT !.phase = "done", !.error = error, !.data = data] }

\* fetchConnectedAccounts up to its await: api.get("/api/auth/connected-accounts/")
fetchConnectedAccounts(cs) == cs \cup { NewAcctCall(cs, "fetch", "", 0) }

\* backend: unlink(provider, uid) fails with NotFound when the account is not linked
UnlinkError(linked, provider, uid) == IF uid \in linked[provider] THEN "" ELSE "NotFound"

\* backend: the linked accounts after unlink(provider, uid)
Unlinked(linked, provider, uid) == [linked EXCEPT ![provider] = @ \ { uid }]

\* a variant that drops the account from the list whatever the answer
AfterUnlinkErrorDropsAccount(shown, provider, uid) ==
    [shown EXCEPT ![provider] = @ \ { uid }]

\* handleUnlink's catch block: a toast, the list is left as it is
AfterUnlinkError(shown, provider, uid) == shown

NoAcctEvent == [ev |-> "none", kind |-> "none", provider |-> "", uid |-> 0, error |-> ""]

InitAccounts ==
    /\ srvAccounts \in [Providers -> SUBSET Uids]
    /\ accounts = NoAccounts
    /\ acctCalls = fetchConnectedAccounts({})
    /\ lastAcct = [NoAcctEvent EXCEPT !.ev = "mount"]

\* the actions of this page leave the session and the repository pages alone
AccountsOnly == UNCHANGED <<sessionVars, repoVars, formVars>>

\* the GitHub connect flow has completed: the browser left for the provider
\* (handleConnect) and has come back, the account is linked and the page is
\* loaded again
ConnectCompleted(uid) ==
    /\ srvAccounts' = [srvAccounts EXCEPT !["github"] = @ \cup { uid }]
    /\ accounts' = NoAccounts
    /\ acctCalls' = fetchConnectedAccounts({})
    /\ lastAcct' = [NoAcctEvent EXCEPT !.ev = "mount"]
    /\ AccountsOnly

\* the Disconnect button of a listed account: handleUnlink up to its await
handleUnlink(provider, uid, confirmed) ==
    /\ uid \in accounts[provider]
    /\ IF ~confirmed
       THEN UNCHANGED acctCalls
       ELSE /\ FreeAcctIds(acctCalls) # {}
            /\ acctCalls' = acctCalls \cup { NewAcctCall(acctCalls, "unlink", provider, uid) }
    /\ lastAcct' = [NoAcctEvent EXCEPT !.ev = IF confirmed THEN "handleUnlink" ELSE "declined",
                                       !.kind = "unlink", !.provider = provider, !.uid = uid]
    /\ UNCHANGED <<srvAccounts, accounts>>
    /\ AccountsOnly

\* backend: answers GET /api/auth/connected-accounts/, or fails
ServerListAccounts(c, ok) ==
    /\ c \in acctCalls /\ c.kind = "fetch" /\ c.phase = "sent"
    /\ acctCalls' = AcctAnswer(acctCalls, c, IF ok THEN "" ELSE "UpstreamError",
                               IF ok THEN srvAccounts ELSE NoAccounts)
    /\ lastAcct' = [NoAcctEvent EXCEPT !.ev = "server", !.kind = "fetch"]
    /\ UNCHANGED <<srvAccounts, accounts>>
    /\ AccountsOnly

\* backend: POST /api/auth/unlink-account/
ServerUnlink(c) ==
    /\ c \in acctCalls /\ c.kind = "unlink" /\ c.phase = "sent"
    /\ LET error == UnlinkError(srvAccounts, c.provider, c.uid)
       IN /\ srvAccounts' = IF error = "" THEN Unlinked(srvAccounts, c.provider, c.uid)
                            ELSE srvAccounts
          /\ acctCalls' = AcctAnswer(acctCalls, c, error, NoAccounts)
          /\ lastAcct' = [NoAcctEvent EXCEPT !.ev = "server", !.kind = "unlink",
                              !.provider = c.provider, !.uid = c.uid, !.error = error]
    /\ UNCHANGED accounts
    /\ AccountsOnly

\* fetchConnectedAccounts after its await: setAccounts(res.data)
AccountsAnswered(c) ==
    /\ c \in acctCalls /\ c.kind = "fetch" /\ c.phase = "done"
    /\ accounts' = IF c.error = "" THEN c.data ELSE accounts
    /\ acctCalls' = acctCalls \ { c }
    /\ lastAcct' = [NoAcctEvent EXCEPT !.ev = "response", !.kind = "fetch", !.error = c.error]
    /\ UNCHANGED srvAccounts
    /\ AccountsOnly

\* handleUnlink after its await: try (toast, fetch again) / catch (toast)
UnlinkAnswered(c) ==
    /\ c \in acctCalls /\ c.kind = "unlink" /\ c.phase = "done"
    /\ IF c.error = ""
       THEN /\ acctCalls' = fetchConnectedAccounts(acctCalls \ { c })
            /\ UNCHANGED accounts
       ELSE /\ acctCalls' = acctCalls \ { c }
            /\ accounts' = AfterUnlinkError(accounts, c.provider, c.uid)
    /\ lastAcct' = [NoAcctEvent EXCEPT !.ev = "response", !.kind = "unlink",
                        !.provider = c.provider, !.uid = c.uid, !.error = c.error]
    /\ UNCHANGED srvAccounts
    /\ AccountsOnly

NextAccounts ==
    \/ \E uid \in Uids : ConnectCompleted(uid)
    \/ \E provider \in Providers, uid \in Uids, confirmed \in BOOLEAN :
          handleUnlink(provider, uid, confirmed)
    \/ \E c \in acctCalls, ok \in BOOLEAN : ServerListAccounts(c, ok)
    \/ \E c \in acctCalls : ServerUnlink(c)
    \/ \E c \in acctCalls : AccountsAnswered(c)
    \/ \E c \in acctCalls : UnlinkAnswered(c)

(***************************************************************************)
(* Removing a repository (ImportedRepos.handleDelete) and, beside it, the  *)
(* Disconnect button of the accounts page: the two destructive operations, *)
(* each behind window.confirm.  One of the two pages is mounted.           *)
(***************************************************************************)
\* the object without the entry of `key`
Without(obj, key) == [k \in DOMAIN obj \ { key } |-> obj[k]]

\* a variant that does not look at the answer of the dialog
handleDeleteUnconfirmed(repoId, confirmed) ==
    /\ repoPage = "/repositories"
    /\ repoId \in DOMAIN repositories
    /\ FreeCallIds(calls) # {}
    /\ calls' = calls \cup { NewCall(calls, "delete", repoId, Empty) }
    /\ last' = [NoEvent EXCEPT !.ev = "handleDelete", !.args = <<repoId, confirmed>>]
    /\ UNCHANGED <<repoPage, srvRepos, repositories, syncing>>
    /\ UNCHANGED <<storage, user, pathname, pendingNav, inflight, loading, acctVars, formVars>>

\* the Remove button of a listed repository: handleDelete up to its await;
\* `confirmed` is the answer of window.confirm
handleDelete(repoId, confirmed) ==
    /\ repoPage = "/repositories"
    /\ repoId \in DOMAIN repositories
    /\ IF ~confirmed
       THEN UNCHANGED calls
       ELSE /\ FreeCallIds(calls) # {}
            /\ calls' = calls \cup { NewCall(calls, "delete", repoId, Empty) }
    /\ last' = [NoEvent EXCEPT !.ev = "handleDelete", !.args = <<repoId, confirmed>>]
    /\ UNCHANGED <<repoPage, srvRepos, repositories, syncing>>
    /\ UNCHANGED <<storage, user, pathname, pendingNav, inflight, loading, acctVars, formVars>>

\* backend: DELETE /api/repositories/<id>/ removes the record, or answers NotFound
ServerDelete(c) ==
    /\ c \in calls /\ c.kind = "delete" /\ c.phase = "sent"
    /\ srvRepos' = Without(srvRepos, c.repo)
    /\ calls' = Answer(calls, c, c.repo \in DOMAIN srvRepos, Empty)
    /\ UNCHANGED <<repoPage, repositories, syncing>>
    /\ ReposOnly

\* handleDelete after its await: try (toast, fetch again) / catch (toast)
DeleteAnswered(c) ==
    /\ c \in calls /\ c.kind = "delete" /\ c.phase = "done"
    /\ calls' = IF c.ok THEN fetchImportedRepos(calls \ { c }, c.live) ELSE calls \ { c }
    /\ UNCHANGED <<repoPage, srvRepos, repositories, syncing>>
    /\ ReposOnly

\* the accounts page is mounted (otherwise the repository pages are)
OnAccountsPage == lastAcct # NoAcctEvent

NextDestructive ==
    \/ ~OnAccountsPage /\ MountImportedRepos
    \/ ~OnAccountsPage /\ MountGitHubRepos
    \/ ~OnAccountsPage /\ \E repoId \in RepoIds : handleImportRepo(repoId)
    \/ ~OnAccountsPage /\ \E repoId \in RepoIds, confirmed \in BOOLEAN :
                              handleDelete(repoId, confirmed)
    \/ ~OnAccountsPage /\ \E c \in calls, ok \in BOOLEAN : ServerList(c, ok)
    \/ ~OnAccountsPage /\ \E c \in calls, upstreamOk \in BOOLEAN : ServerImport(c, upstreamOk)
    \/ ~OnAccountsPage /\ \E c \in calls : ServerDelete(c)
    \/ ~OnAccountsPage /\ \E c \in calls : FetchAnswered(c)
    \/ ~OnAccountsPage /\ \E c \in calls : ImportAnswered(c)
    \/ ~OnAccountsPage /\ \E c \in calls : DeleteAnswered(c)
    \/ OnAccountsPage /\ \E uid \in Uids : ConnectCompleted(uid)
    \/ OnAccountsPage /\ \E provider \in Providers, uid \in Uids, confirmed \in BOOLEAN :
                             handleUnlink(provider, uid, confirmed)
    \/ OnAccountsPage /\ \E c \in acctCalls, ok \in BOOLEAN : ServerListAccounts(c, ok)
    \/ OnAccountsPage /\ \E c \in acctCalls : ServerUnlink(c)
    \/ OnAccountsPage /\ \E c \in acctCalls : AccountsAnswered(c)
    \/ OnAccountsPage /\ \E c \in acctCalls : UnlinkAnswered(c)

(***************************************************************************)
(* The label editor of the connected-accounts page.  A label is modelled   *)
(* by its length; the page lists one account of each provider, keyed       *)
(* `${provider}-${uid}`.                                                   *)
(***************************************************************************)
MaxLabelLength == 100
MaxLabelCalls == 2

LabelKeys == { "github-1", "google-1" }

\* the lengths the user tries to give the text of the input
TypedLengths == { 0, 1, MaxLabelLength, MaxLabelLength + 1 }

\* a variant without the maxLength attribute
InputValueUnlimited(current, typed) == typed

\* <input maxLength={100}>: the value after the user has edited the text towards
\* `typed` characters; the browser lets the text shrink, and grow up to maxLength
InputValue(current, typed) ==
    IF typed <= MaxLabelLength \/ typed <= current THEN typed
    ELSE IF current > MaxLabelLength THEN current ELSE MaxLabelLength

FreeLabelIds(cs) == (1..MaxLabelCalls) \ { c.id : c \in cs }

NewLabelCall(cs, kind, key, label) ==
    [id |-> Min(FreeLabelIds(cs)), kind |-> kind, key |-> key, label |-> label,
     phase |-> "sent", ok |-> FALSE, data |-> <<>>]

\* backend: setLabel refuses a label longer than the maximum
LabelAccepted(label) == label <= MaxLabelLength

LabelsAtRest ==
    /\ srvLabels = [k \in LabelKeys |-> 0]
    /\ labels = [k \in LabelKeys |-> 0]
    /\ editingLabel = Null
    /\ labelValue = 0
    /\ labelCalls = {}

\* the page is mounted and has listed the accounts with their labels
InitLabels ==
    /\ srvLabels \in [LabelKeys -> { 0, MaxLabelLength }]
    /\ labels = srvLabels
    /\ editingLabel = Null
    /\ labelValue = 0
    /\ labelCalls = {}

\* the actions of the label editor leave everything else alone
LabelsOnly == UNCHANGED <<sessionVars, repoVars, acctVars, profileVars, pageVars>>

\* "Edit label" / "Add label" of a listed account
startEditingLabel(key, currentLabel) ==
    /\ currentLabel = labels[key]
    /\ editingLabel' = key
    /\ labelValue' = currentLabel
    /\ UNCHANGED <<srvLabels, labels, labelCalls>>
    /\ LabelsOnly

\* onChange of the label input: setLabelValue(e.target.value)
editLabel(typed) ==
    /\ editingLabel # Null
    /\ labelValue' = InputValue(labelValue, typed)
    /\ UNCHANGED <<srvLabels, labels, editingLabel, labelCalls>>
    /\ LabelsOnly

\* the Save button of the account being edited: saveLabel up to its await
saveLabel(key) ==
    /\ editingLabel = key
    /\ FreeLabelIds(labelCalls) # {}
    /\ labelCalls' = labelCalls \cup { NewLabelCall(labelCalls, "label", key, labelValue) }
    /\ UNCHANGED <<srvLabels, labels, editingLabel, labelValue>>
    /\ LabelsOnly

\* the Cancel button
cancelEditing ==
    /\ editingLabel # Null
    /\ editingLabel' = Null
    /\ labelValue' = 0
    /\ UNCHANGED <<srvLabels, labels, labelCalls>>
    /\ LabelsOnly

\* backend: POST /api/auth/update-account-label/
ServerSetLabel(c) ==
    /\ c \in labelCalls /\ c.kind = "label" /\ c.phase = "sent"
    /\ srvLabels' = IF LabelAccepted(c.label) THEN [srvLabels EXCEPT ![c.key] = c.label]
                    ELSE srvLabels
    /\ labelCalls' = (labelCalls \ { c }) \cup
                       { [c EXCEPT !.phase = "done", !.ok = LabelAccepted(c.label)] }
    /\ UNCHANGED <<labels, editingLabel, labelValue>>
    /\ LabelsOnly

\* backend: GET /api/auth/connected-accounts/
ServerListLabels(c) ==
    /\ c \in labelCalls /\ c.kind = "fetch" /\ c.phase = "sent"
    /\ labelCalls' = (labelCalls \ { c }) \cup
                       { [c EXCEPT !.phase = "done", !.ok = TRUE, !.data = srvLabels] }
    /\ UNCHANGED <<srvLabels, labels, editingLabel, labelValue>>
    /\ LabelsOnly

\* saveLabel after its await: try (toast, setEditingLabel(null), fetch again) /
\* catch (toast)
LabelAnswered(c) ==
    /\ c \in labelCalls /\ c.kind = "label" /\ c.phase = "done"
    /\ IF c.ok
       THEN /\ editingLabel' = Null
            /\ labelCalls' = (labelCalls \ { c }) \cup
                               { NewLabelCall(labelCalls \ { c }, "fetch", "", 0) }
       ELSE /\ labelCalls' = labelCalls \ { c }
            /\ UNCHANGED editingLabel
    /\ UNCHANGED <<srvLabels, labels, labelValue>>
    /\ LabelsOnly

\* fetchConnectedAccounts after its await: the labels of the listed accounts
LabelsListed(c) ==
    /\ c \in labelCalls /\ c.kind = "fetch" /\ c.phase = "done"
    /\ labels' = c.data
    /\ labelCalls' = labelCalls \ { c }
    /\ UNCHANGED <<srvLabels, editingLabel, labelValue>>
    /\ LabelsOnly

NextLabels ==
    \/ \E key \in LabelKeys, currentLabel \in { 0, 1, MaxLabelLength } :
          startEditingLabel(key, currentLabel)
    \/ \E typed \in TypedLengths : editLabel(typed)
    \/ \E key \in LabelKeys : saveLabel(key)
    \/ cancelEditing
    \/ \E c \in labelCalls : ServerSetLabel(c)
    \/ \E c \in labelCalls : ServerListLabels(c)
    \/ \E c \in labelCalls : LabelAnswered(c)
    \/ \E c \in labelCalls : LabelsListed(c)

(***************************************************************************)
(* The profile page (Profile).  A file is [name, type, size], its type the *)
(* segments of the MIME type ("image/png" is <<"image", "png">>); a text   *)
(* field stands for the four of the form; the data URL a FileReader makes  *)
(* of a file is written as the file's name.                                *)
(***************************************************************************)
MaxPictureSize == 5 * 1024 * 1024
MaxProfileCalls == 1
MaxReaders == 1

NoFile == [name |-> "", type |-> <<>>, size |-> 0]

Files ==
    { [name |-> "small.png", type |-> <<"image", "png">>, size |-> 1],
      [name |-> "limit.png", type |-> <<"image", "png">>, size |-> MaxPictureSize],
      [name |-> "big.png", type |-> <<"image", "png">>, size |-> MaxPictureSize + 1],
      [name |-> "doc.pdf", type |-> <<"application", "pdf">>, size |-> 1],
      [name |-> "notype", type |-> <<"image">>, size |-> 1] }

Texts == { "", "bio" }

\* file.type.startsWith("image/")
IsImageType(type) == Len(type) >= 2 /\ type[1] = "image"

\* a variant without the size check
PictureErrorNoSize(file) ==
    IF ~IsImageType(file.type) THEN "Please select an image file" ELSE ""

\* the validation of handleChange: the error it shows, "" when the file passes
PictureError(file) ==
    IF ~IsImageType(file.type) THEN "Please select an image file"
    ELSE IF file.size > MaxPictureSize THEN "Image size should be less than 5MB"
    ELSE ""

\* useState initialiser of `profile`
EmptyProfile == [bio |-> "", profile_picture |-> NoFile, profile_picture_url |-> ""]

\* the profile the page builds from res.data
ProfileData(data) ==
    [bio |-> data.bio, profile_picture |-> NoFile,
     profile_picture_url |-> data.profile_picture_url]

\* the FormData of handleSubmit: the file is appended only if one is selected
FormData(p) == [bio |-> p.bio, profile_picture |-> p.profile_picture]

\* backend: the profile after a PUT; an uploaded picture is served under its name
Updated(stored, form) ==
    [bio |-> form.bio,
     profile_picture_url |-> IF form.profile_picture = NoFile THEN stored.profile_picture_url
                             ELSE form.profile_picture.name]

NoFormEvent == [ev |-> "none", file |-> NoFile, toast |-> ""]

ProfileAtRest ==
    /\ srvProfile = [bio |-> "", profile_picture_url |-> ""]
    /\ profile = EmptyProfile
    /\ originalProfile = <<>>
    /\ preview = ""
    /\ isEditing = FALSE
    /\ profLoading = FALSE
    /\ readers = {}
    /\ profileCalls = {}
    /\ lastForm = NoFormEvent

FreeProfileIds(cs) == (1..MaxProfileCalls) \ { c.id : c \in cs }

NewProfileCall(cs, kind, form) ==
    [id |-> Min(FreeProfileIds(cs)), kind |-> kind, phase |-> "sent", ok |-> FALSE,
     form |-> form, data |-> [bio |-> "", profile_picture_url |-> ""]]

\* the page has mounted: its mount effect has sent fetchProfile's request;
\* originalProfile is null (<<>>) until it is set (<<p>>)
InitProfile ==
    /\ srvProfile \in [bio : Texts, profile_picture_url : { "", "old.png" }]
    /\ profile = EmptyProfile
    /\ originalProfile = <<>>
    /\ preview = ""
    /\ isEditing = FALSE
    /\ profLoading = FALSE
    /\ readers = {}
    /\ profileCalls = { NewProfileCall({}, "get", FormData(EmptyProfile)) }
    /\ lastForm = [NoFormEvent EXCEPT !.ev = "mount"]

ProfileOnly == UNCHANGED <<sessionVars, repoVars, acctVars, labelVars, pageVars>>

\* backend: GET and PUT /api/auth/profile/, answered or failed
ServerProfile(c, ok) ==
    /\ c \in profileCalls /\ c.phase = "sent"
    /\ srvProfile' = IF ok /\ c.kind = "put" THEN Updated(srvProfile, c.form) ELSE srvProfile
    /\ profileCalls' = (profileCalls \ { c }) \cup
                         { [c EXCEPT !.phase = "done", !.ok = ok, !.data = srvProfile'] }
    /\ lastForm' = [NoFormEvent EXCEPT !.ev = "server"]
    /\ UNCHANGED <<profile, originalProfile, preview, isEditing, profLoading, readers>>
    /\ ProfileOnly

\* fetchProfile after its await
ProfileFetched(c) ==
    /\ c \in profileCalls /\ c.kind = "get" /\ c.phase = "done"
    /\ profileCalls' = profileCalls \ { c }
    /\ IF c.ok
       THEN /\ profile' = ProfileData(c.data)
            /\ originalProfile' = << ProfileData(c.data) >>
            /\ preview' = c.data.profile_picture_url
            /\ lastForm' = [NoFormEvent EXCEPT !.ev = "fetchProfile"]
       ELSE /\ lastForm' = [NoFormEvent EXCEPT !.ev = "fetchProfile",
                                             !.toast = "Failed to load profile"]
            /\ UNCHANGED <<profile, originalProfile, preview>>
    /\ UNCHANGED <<srvProfile, isEditing, profLoading, readers>>
    /\ ProfileOnly

handleEdit ==
    /\ ~isEditing
    /\ isEditing' = TRUE
    /\ lastForm' = [NoFormEvent EXCEPT !.ev = "handleEdit"]
    /\ UNCHANGED <<srvProfile, profile, originalProfile, preview, profLoading, readers,
                   profileCalls>>
    /\ ProfileOnly

\* handleChange of the file input; NoFile: the file dialog was closed with no
\* file, and the text branch stores the input's empty value
handleChange(file) ==
    /\ isEditing
    /\ IF file = NoFile
       THEN /\ profile' = [profile EXCEPT !.profile_picture = NoFile]
            /\ lastForm' = [NoFormEvent EXCEPT !.ev = "handleChange"]
            /\ UNCHANGED readers
       ELSE IF PictureError(file) # ""
       THEN /\ lastForm' = [NoFormEvent EXCEPT !.ev = "handleChange", !.file = file,
                                             !.toast = PictureError(file)]
            /\ UNCHANGED <<profile, readers>>
       ELSE /\ Cardinality(readers \cup { file.name }) <= MaxReaders
            /\ profile' = [profile EXCEPT !.profile_picture = file]
            /\ readers' = readers \cup { file.name }
            /\ lastForm' = [NoFormEvent EXCEPT !.ev = "handleChange", !.file = file]
    /\ UNCHANGED <<srvProfile, originalProfile, preview, isEditing, profLoading, profileCalls>>
    /\ ProfileOnly

\* handleChange of a text input
handleChangeText(value) ==
    /\ isEditing
    /\ profile' = [profile EXCEPT !.bio = value]
    /\ lastForm' = [NoFormEvent EXCEPT !.ev = "handleChangeText"]
    /\ UNCHANGED <<srvProfile, originalProfile, preview, isEditing, profLoading, readers,
                   profileCalls>>
    /\ ProfileOnly

\* reader.onloadend: setPreview(reader.result)
ReaderLoaded(name) ==
    /\ name \in readers
    /\ readers' = readers \ { name }
    /\ preview' = name
    /\ lastForm' = [NoFormEvent EXCEPT !.ev = "onloadend"]
    /\ UNCHANGED <<srvProfile, profile, originalProfile, isEditing, profLoading, profileCalls>>
    /\ ProfileOnly

\* Profile.handleSubmit up to its await
handleSubmitProfile ==
    /\ isEditing /\ ~profLoading
    /\ FreeProfileIds(profileCalls) # {}
    /\ profLoading' = TRUE
    /\ profileCalls' = profileCalls \cup { NewProfileCall(profileCalls, "put", FormData(profile)) }
    /\ lastForm' = [NoFormEvent EXCEPT !.ev = "handleSubmit"]
    /\ UNCHANGED <<srvProfile, profile, originalProfile, preview, isEditing, readers>>
    /\ ProfileOnly

\* Profile.handleSubmit after its await: try / catch / finally
ProfileSaved(c) ==
    /\ c \in profileCalls /\ c.kind = "put" /\ c.phase = "done"
    /\ profileCalls' = profileCalls \ { c }
    /\ profLoading' = FALSE
    /\ IF c.ok
       THEN /\ profile' = ProfileData(c.data)
            /\ originalProfile' = << ProfileData(c.data) >>
            /\ preview' = c.data.profile_picture_url
            /\ isEditing' = FALSE
            /\ lastForm' = [NoFormEvent EXCEPT !.ev = "saved",
                                             !.toast = "Profile updated successfully!"]
       ELSE /\ lastForm' = [NoFormEvent EXCEPT !.ev = "saved",
                                             !.toast = "Failed to update profile"]
            /\ UNCHANGED <<profile, originalProfile, preview, isEditing>>
    /\ UNCHANGED <<srvProfile, readers>>
    /\ ProfileOnly

handleCancel ==
    /\ isEditing /\ ~profLoading
    /\ IF originalProfile # <<>>
       THEN /\ profile' = [originalProfile[1] EXCEPT !.profile_picture = NoFile]
            /\ preview' = originalProfile[1].profile_picture_url
       ELSE UNCHANGED <<profile, preview>>
    /\ isEditing' = FALSE
    /\ lastForm' = [NoFormEvent EXCEPT !.ev = "handleCancel"]
    /\ UNCHANGED <<srvProfile, originalProfile, profLoading, readers, profileCalls>>
    /\ ProfileOnly

NextProfile ==
    \/ \E c \in profileCalls, ok \in BOOLEAN : ServerProfile(c, ok)
    \/ \E c \in profileCalls : ProfileFetched(c)
    \/ handleEdit
    \/ \E file \in Files \cup { NoFile } : handleChange(file)
    \/ \E value \in Texts : handleChangeText(value)
    \/ \E name \in readers : ReaderLoaded(name)
    \/ handleSubmitProfile
    \/ \E c \in profileCalls : ProfileSaved(c)
    \/ handleCancel

(***************************************************************************)
(* The redirects of the route guards, one rendering of <Routes> at a time. *)
(* Here `pathname` is the location of the router, rendered or not yet, and *)
(* the task record holds the requested route, the redirects taken and the  *)
(* page the request came from ("" for a document load).                    *)
(***************************************************************************)
MaxRedirects == 4

\* the routes a document or a navigate() can ask for: the pages, the callback
\* route and paths only the catch-all route matches
RequestedRoutes == Pages \cup { "/github/callback", "/nowhere", "/repositories/1" }

\* the location renders: no guard redirects it
Renders(path, u) == Route(path, u) = path

InitRoutes ==
    /\ \E store \in { NoTokens } \cup IssuedPairs, u \in BOOLEAN :
          /\ u \/ ~checkAuth(store)
          /\ storage = store
          /\ user = u
    /\ pathname \in RequestedRoutes
    /\ inflight = {}
    /\ pendingNav = "none"
    /\ loading = FALSE
    /\ last = [NoEvent EXCEPT !.ev = "request", !.args = << pathname, 0, "" >>]

\* navigate(path), or a link, from a page that has rendered
RequestRoute(path) ==
    /\ Renders(pathname, user)
    /\ path # pathname
    /\ pathname' = path
    /\ last' = [NoEvent EXCEPT !.ev = "request", !.args = << path, 0, pathname >>]
    /\ UNCHANGED <<storage, user, inflight, pendingNav, loading>>
    /\ SessionOnly

\* <Routes> renders the location and a guard, or the catch-all route, returns
\* <Navigate replace>
Redirect ==
    /\ ~Renders(pathname, user)
    /\ last.args[2] < MaxRedirects
    /\ pathname' = Route(pathname, user)
    /\ last' = [last EXCEPT !.ev = "redirect", !.args = << last.args[1], last.args[2] + 1,
                                                             last.args[3] >>]
    /\ UNCHANGED <<storage, user, inflight, pendingNav, loading>>
    /\ SessionOnly

NextRoutes ==
    \/ \E path \in RequestedRoutes : RequestRoute(path)
    \/ Redirect

(***************************************************************************)
(* The GitHub page with its accounts (GitHubRepos: checkGitHubConnection,  *)
(* fetchRepos, handleAccountChange, handleImportRepo). A repository of the *)
(* provider is [id, owner]: its id and the uid of the account it belongs   *)
(* to. A call is [id, kind, uid, repo, closure].                           *)
(***************************************************************************)
MaxGithubUids == 2
MaxGhCalls == 3

GithubUids == 1..MaxGithubUids

NoRepo == [id |-> 0, owner |-> 0]

\* backend: the repositories GET /api/auth/github/repos/?github_uid=<uid> lists
ReposOf(uid) == { [id |-> 10 * uid + 1, owner |-> uid] }

\* the account lists the status endpoint can answer with
AccountLists == { [i \in 1..n |-> i] : n \in 0..MaxGithubUids }

NoGhEvent == [ev |-> "none", uid |-> 0, repo |-> NoRepo, status |-> 0]

FreeGhIds(cs) == (1..MaxGhCalls) \ { c.id : c \in cs }

NewGhCall(cs, kind, uid, repo, closure) ==
    [id |-> Min(FreeGhIds(cs)), kind |-> kind, uid |-> uid, repo |-> repo,
     closure |-> closure]

\* githubUid || selectedAccount
FetchUid(githubUid, selected) == IF githubUid # 0 THEN githubUid ELSE selected

\* fetchRepos(githubUid) up to its await
fetchRepos(cs, githubUid, selected) ==
    cs \cup { NewGhCall(cs, "repos", FetchUid(githubUid, selected), NoRepo, Empty) }

\* setRepos(res.data)
ShownRepos(shown, uid, selected) == ReposOf(uid)

\* the page as the other specifications hold it: not opened
GitHubAtRest ==
    /\ githubConnected = FALSE
    /\ githubAccounts = <<>>
    /\ selectedAccount = 0
    /\ repos = {}
    /\ ghLoading = FALSE
    /\ importing = Empty
    /\ ghCalls = {}
    /\ lastGh = NoGhEvent

\* GitHubRepos has mounted: its mount effect has called checkGitHubConnection
InitGitHub ==
    /\ githubConnected = FALSE
    /\ githubAccounts = <<>>
    /\ selectedAccount = 0
    /\ repos = {}
    /\ ghLoading = FALSE
    /\ importing = Empty
    /\ ghCalls = { NewGhCall({}, "status", 0, NoRepo, Empty) }
    /\ lastGh = NoGhEvent

GitHubOnly == UNCHANGED <<sessionVars, repoVars, acctVars, labelVars, profileVars, subVars>>

\* `checking` is false once the status request has been answered
Checking == \E c \in ghCalls : c.kind = "status"

\* checkGitHubConnection after its await: the accounts are stored, the first is
\* selected and its repositories are fetched; a failure is only logged
StatusAnswered(c, ok, accts) ==
    /\ c \in ghCalls /\ c.kind = "status"
    /\ IF ok /\ Len(accts) > 0
       THEN /\ githubConnected' = TRUE
            /\ githubAccounts' = accts
            /\ selectedAccount' = accts[1]
            /\ ghLoading' = TRUE
            /\ ghCalls' = fetchRepos(ghCalls \ { c }, accts[1], selectedAccount)
       ELSE /\ githubConnected' = FALSE
            /\ ghCalls' = ghCalls \ { c }
            /\ UNCHANGED <<githubAccounts, selectedAccount, ghLoading>>
    /\ lastGh' = [NoGhEvent EXCEPT !.ev = "checkGitHubConnection",
                                   !.status = IF ok THEN 200 ELSE 500]
    /\ UNCHANGED <<repos, importing>>
    /\ GitHubOnly

\* the account selector, shown when more than one account is linked
handleAccountChange(uid) ==
    /\ ~Checking /\ githubConnected
    /\ Len(githubAccounts) > 1
    /\ \E i \in 1..Len(githubAccounts) : githubAccounts[i] = uid
    /\ uid # selectedAccount
    /\ FreeGhIds(ghCalls) # {}
    /\ selectedAccount' = uid
    /\ ghLoading' = TRUE
    /\ ghCalls' = fetchRepos(ghCalls, uid, selectedAccount)
    /\ lastGh' = [NoGhEvent EXCEPT !.ev = "handleAccountChange", !.uid = uid]
    /\ UNCHANGED <<githubConnected, githubAccounts, repos, importing>>
    /\ GitHubOnly

\* the Refresh button (disabled={loading}): fetchRepos()
Refresh ==
    /\ ~Checking /\ githubConnected
    /\ ~ghLoading
    /\ FreeGhIds(ghCalls) # {}
    /\ ghLoading' = TRUE
    /\ ghCalls' = fetchRepos(ghCalls, 0, selectedAccount)
    /\ lastGh' = [NoGhEvent EXCEPT !.ev = "fetchRepos", !.uid = selectedAccount]
    /\ UNCHANGED <<githubConnected, githubAccounts, selectedAccount, repos, importing>>
    /\ GitHubOnly

\* fetchRepos after its await: try / catch / finally
ReposAnswered(c, status) ==
    /\ c \in ghCalls /\ c.kind = "repos"
    /\ repos' = IF status = 200 THEN ShownRepos(repos, c.uid, selectedAccount) ELSE repos
    /\ githubConnected' = IF status = 400 THEN FALSE ELSE githubConnected
    /\ ghLoading' = FALSE
    /\ ghCalls' = ghCalls \ { c }
    /\ lastGh' = [NoGhEvent EXCEPT !.ev = "reposAnswered", !.uid = c.uid, !.status = status]
    /\ UNCHANGED <<githubAccounts, selectedAccount, importing>>
    /\ GitHubOnly

\* the Import button of a listed repository (disabled={importing[repo.id]}):
\* GitHubRepos.handleImportRepo up to its await, with the payload it posts
handleImportRepoOf(repo) ==
    /\ ~Checking /\ githubConnected
    /\ repo \in repos
    /\ ~(repo.id \in DOMAIN importing /\ importing[repo.id])
    /\ FreeGhIds(ghCalls) # {}
    /\ importing' = Spread(importing, repo.id, TRUE)
    /\ ghCalls' = ghCalls \cup { NewGhCall(ghCalls, "import", selectedAccount, repo, importing) }
    /\ lastGh' = [NoGhEvent EXCEPT !.ev = "handleImportRepo", !.uid = selectedAccount,
                                   !.repo = repo]
    /\ UNCHANGED <<githubConnected, githubAccounts, selectedAccount, repos, ghLoading>>
    /\ GitHubOnly

\* handleImportRepo after its await: a toast, then the finally block
GitHubImportAnswered(c, ok) ==
    /\ c \in ghCalls /\ c.kind = "import"
    /\ importing' = Spread(c.closure, c.repo.id, FALSE)
    /\ ghCalls' = ghCalls \ { c }
    /\ lastGh' = [NoGhEvent EXCEPT !.ev = "importAnswered", !.uid = c.uid, !.repo = c.repo,
                                   !.status = IF ok THEN 200 ELSE 400]
    /\ UNCHANGED <<githubConnected, githubAccounts, selectedAccount, repos, ghLoading>>
    /\ GitHubOnly

NextGitHub ==
    \/ \E c \in ghCalls, ok \in BOOLEAN, accts \in AccountLists : StatusAnswered(c, ok, accts)
    \/ \E uid \in GithubUids : handleAccountChange(uid)
    \/ Refresh
    \/ \E c \in ghCalls, status \in { 200, 400, 500 } : ReposAnswered(c, status)
    \/ \E repo \in repos : handleImportRepoOf(repo)
    \/ \E c \in ghCalls, ok \in BOOLEAN : GitHubImportAnswered(c, ok)

(***************************************************************************)
(* The submissions page (SubmitCode) and the backend's paginated list. A   *)
(* submission is <<language, n>>: the n-th one stored in that language; a  *)
(* list is the set of its submissions. A call is                           *)
(* [id, kind, page, filters, phase, ok, count, results, afterSubmit].      *)
(***************************************************************************)
PageSize == 10
MaxStoredPages == 2
MaxPosts == 1
MaxSubCalls == 2

MaxOf(a, b) == IF a >= b THEN a ELSE b

MinOf(a, b) == IF a <= b THEN a ELSE b

\* Math.ceil(count / 10)
CeilDiv(count, size) == (count + size - 1) \div size

Languages == { "python", "sql" }

\* the orderings chosen in the model: the default one
Orderings == { "-created_at" }

NoFilters == [language |-> "", ordering |-> "-created_at"]

\* useState([])
NoList == {}

\* backend: the number of submissions a language filter selects
Count(srv, lang) == IF lang = "" THEN srv["python"] + srv["sql"] ELSE srv[lang]

\* backend: the k-th submission of the list a language filter selects
Submission(srv, lang, k) ==
    IF lang # "" THEN << lang, k >>
    ELSE IF k <= srv["python"] THEN << "python", k >>
    ELSE << "sql", k - srv["python"] >>

\* backend: the results of a page of the filtered list
Results(srv, lang, pageNum) ==
    { Submission(srv, lang, k) :
        k \in ((pageNum - 1) * PageSize + 1)..MinOf(pageNum * PageSize, Count(srv, lang)) }

\* backend: a page number the paginator accepts (page 1 of an empty list too)
ValidPage(count, pageNum) == pageNum >= 1 /\ pageNum <= MaxOf(1, CeilDiv(count, PageSize))

NoSubEvent == [ev |-> "none", status |-> 0, toast |-> ""]

FreeSubIds(cs) == (1..MaxSubCalls) \ { c.id : c \in cs }

NewSubCall(cs, kind, pageNum, fs, afterSubmit) ==
    [id |-> Min(FreeSubIds(cs)), kind |-> kind, page |-> pageNum, filters |-> fs,
     phase |-> "sent", ok |-> FALSE, count |-> 0, results |-> {},
     afterSubmit |-> afterSubmit]

\* fetchSubmissions(pageNum) up to its await, with the filters of its closure
fetchSubmissions(cs, pageNum, fs) == cs \cup { NewSubCall(cs, "list", pageNum, fs, FALSE) }

\* the effect on [page, filters]: it runs when one of them has changed
SubmissionsEffect(cs, oldPage, oldFilters, newPage, newFilters) ==
    IF newPage # oldPage \/ newFilters # oldFilters
    THEN fetchSubmissions(cs, newPage, newFilters)
    ELSE cs

SubmitAtRest ==
    /\ srvSubmissions = [l \in Languages |-> 0]
    /\ code = ""
    /\ language = "python"
    /\ submissions = NoList
    /\ subLoading = FALSE
    /\ page = 1
    /\ totalPages = 1
    /\ filters = NoFilters
    /\ subCalls = {}
    /\ lastSub = NoSubEvent

\* SubmitCode has mounted: its effect has called fetchSubmissions(1)
InitSubmit ==
    /\ \E n \in { k * PageSize : k \in 0..MaxStoredPages } :
          srvSubmissions = [l \in Languages |-> IF l = "python" THEN n ELSE 0]
    /\ code = ""
    /\ language = "python"
    /\ submissions = NoList
    /\ subLoading = FALSE
    /\ page = 1
    /\ totalPages = 1
    /\ filters = NoFilters
    /\ subCalls = fetchSubmissions({}, 1, NoFilters)
    /\ lastSub = NoSubEvent

PagesAtRest == GitHubAtRest /\ SubmitAtRest

SubmitOnly == UNCHANGED <<sessionVars, repoVars, acctVars, labelVars, profileVars, ghVars>>

\* the pagination controls are rendered
PaginationShown == submissions # {} /\ totalPages > 1

\* the Previous button: setPage(p => Math.max(1, p - 1)), then the effect
Previous ==
    /\ PaginationShown /\ page # 1
    /\ page' = MaxOf(1, page - 1)
    /\ page' # page => FreeSubIds(subCalls) # {}
    /\ subCalls' = SubmissionsEffect(subCalls, page, filters, page', filters)
    /\ lastSub' = [NoSubEvent EXCEPT !.ev = "previous"]
    /\ UNCHANGED <<srvSubmissions, code, language, submissions, subLoading, totalPages, filters>>
    /\ SubmitOnly

\* the Next button: setPage(p => Math.min(totalPages, p + 1)), then the effect
NextPage ==
    /\ PaginationShown /\ page # totalPages
    /\ page' = MinOf(totalPages, page + 1)
    /\ page' # page => FreeSubIds(subCalls) # {}
    /\ subCalls' = SubmissionsEffect(subCalls, page, filters, page', filters)
    /\ lastSub' = [NoSubEvent EXCEPT !.ev = "next"]
    /\ UNCHANGED <<srvSubmissions, code, language, submissions, subLoading, totalPages, filters>>
    /\ SubmitOnly

\* one of the filter selectors: setFilters({ ...filters, [name]: value }), then
\* the effect
setFilters(lang, ordering) ==
    /\ filters' = [language |-> lang, ordering |-> ordering]
    /\ filters' # filters
    /\ lang = filters.language \/ ordering = filters.ordering
    /\ FreeSubIds(subCalls) # {}
    /\ subCalls' = SubmissionsEffect(subCalls, page, filters, page, filters')
    /\ lastSub' = [NoSubEvent EXCEPT !.ev = "setFilters"]
    /\ UNCHANGED <<srvSubmissions, code, language, submissions, subLoading, page, totalPages>>
    /\ SubmitOnly

\* the textarea of the form: setCode(e.target.value)
setCode(text) ==
    /\ code' = text
    /\ code' # code
    /\ lastSub' = [NoSubEvent EXCEPT !.ev = "setCode"]
    /\ UNCHANGED <<srvSubmissions, language, submissions, subLoading, page, totalPages, filters,
                   subCalls>>
    /\ SubmitOnly

\* the Submit button (disabled={loading}): submitCode up to its await
submitCode ==
    /\ ~subLoading
    /\ IF code = ""
       THEN /\ lastSub' = [NoSubEvent EXCEPT !.ev = "submitCode",
                                             !.toast = "Please enter some code before submitting"]
            /\ UNCHANGED <<subLoading, subCalls>>
       ELSE /\ FreeSubIds(subCalls) # {}
            /\ subLoading' = TRUE
            /\ subCalls' = subCalls \cup { NewSubCall(subCalls, "submit", 0, filters, TRUE) }
            /\ lastSub' = [NoSubEvent EXCEPT !.ev = "submitCode"]
    /\ UNCHANGED <<srvSubmissions, code, language, submissions, page, totalPages, filters>>
    /\ SubmitOnly

\* backend: GET /api/submissions/?page=..&language=..&ordering=..: the page of
\* the filtered list with its count, NotFound for a page out of range, or an error
ServerSubmissions(c, up) ==
    /\ c \in subCalls /\ c.kind = "list" /\ c.phase = "sent"
    /\ LET count == Count(srvSubmissions, c.filters.language)
       IN subCalls' = (subCalls \ { c }) \cup
                        { [c EXCEPT !.phase = "done",
                                    !.ok = up /\ ValidPage(count, c.page),
                                    !.count = count,
                                    !.results = IF up /\ ValidPage(count, c.page)
                                                THEN Results(srvSubmissions,
                                                             c.filters.language, c.page)
                                                ELSE {}] }
    /\ UNCHANGED <<srvSubmissions, code, language, submissions, subLoading, page, totalPages,
                   filters, lastSub>>
    /\ SubmitOnly

\* backend: POST /api/submissions/ stores the submission, or fails
ServerSubmit(c, up) ==
    /\ c \in subCalls /\ c.kind = "submit" /\ c.phase = "sent"
    /\ up => Count(srvSubmissions, "") % PageSize < MaxPosts
    /\ srvSubmissions' = IF up THEN [srvSubmissions EXCEPT ![language] = @ + 1]
                         ELSE srvSubmissions
    /\ subCalls' = (subCalls \ { c }) \cup { [c EXCEPT !.phase = "done", !.ok = up] }
    /\ UNCHANGED <<code, language, submissions, subLoading, page, totalPages, filters, lastSub>>
    /\ SubmitOnly

\* setSubmissions(data.results || [])
ShownSubmissions(c) == c.results

\* fetchSubmissions after its await; after a submission, submitCode's finally
SubmissionsAnswered(c) ==
    /\ c \in subCalls /\ c.kind = "list" /\ c.phase = "done"
    /\ IF c.ok
       THEN /\ submissions' = ShownSubmissions(c)
            /\ totalPages' = CeilDiv(c.count, PageSize)
       ELSE UNCHANGED <<submissions, totalPages>>
    /\ subLoading' = IF c.afterSubmit THEN FALSE ELSE subLoading
    /\ subCalls' = subCalls \ { c }
    /\ lastSub' = [NoSubEvent EXCEPT !.ev = "fetchSubmissions",
                                     !.status = IF c.ok THEN 200 ELSE 404,
                                     !.toast = IF c.ok THEN "" ELSE "Failed to load submissions"]
    /\ UNCHANGED <<srvSubmissions, code, language, page, filters>>
    /\ SubmitOnly

\* submitCode after its await: setCode("") and `await fetchSubmissions()`, the
\* first page with the filters of the handler's closure; or the catch and finally
SubmitAnswered(c) ==
    /\ c \in subCalls /\ c.kind = "submit" /\ c.phase = "done"
    /\ IF c.ok
       THEN /\ code' = ""
            /\ subCalls' = (subCalls \ { c }) \cup
                             { NewSubCall(subCalls \ { c }, "list", 1, c.filters, TRUE) }
            /\ UNCHANGED subLoading
       ELSE /\ subLoading' = FALSE
            /\ subCalls' = subCalls \ { c }
            /\ UNCHANGED code
    /\ lastSub' = [NoSubEvent EXCEPT !.ev = "submitAnswered",
                                     !.status = IF c.ok THEN 200 ELSE 500,
                                     !.toast = IF c.ok THEN "Code submitted successfully!"
                                               ELSE "Submission failed. Please try again."]
    /\ UNCHANGED <<srvSubmissions, language, submissions, page, totalPages, filters>>
    /\ SubmitOnly

NextSubmit ==
    \/ Previous
    \/ NextPage
    \/ \E lang \in Languages \cup { "" }, ordering \in Orderings : setFilters(lang, ordering)
    \/ \E text \in { "print(1)" } : setCode(text)
    \/ submitCode
    \/ \E c \in subCalls, up \in BOOLEAN : ServerSubmissions(c, up)
    \/ \E c \in subCalls, up \in BOOLEAN : ServerSubmit(c, up)
    \/ \E c \in subCalls : SubmissionsAnswered(c)
    \/ \E c \in subCalls : SubmitAnswered(c)

\* the forms as the other specifications hold them: not opened
FormsAtRest == LabelsAtRest /\ ProfileAtRest /\ PagesAtRest

\* the session as the other pages' specifications hold it: logged in, at rest
SessionAtRest ==
    /\ storage = [access |-> "T1", refresh |-> "R1"]
    /\ user = TRUE
    /\ pathname = "/github"
    /\ inflight = {}
    /\ pendingNav = "none"
    /\ loading = FALSE
    /\ last = NoEvent

\* the accounts page as the other specifications hold it: not opened
AccountsAtRest ==
    /\ srvAccounts = NoAccounts
    /\ accounts = NoAccounts
    /\ acctCalls = {}
    /\ lastAcct = NoAcctEvent

Init == InitSession /\ InitRepos /\ AccountsAtRest /\ FormsAtRest

InitReposPages == SessionAtRest /\ InitRepos /\ AccountsAtRest /\ FormsAtRest

InitAccountsPage == SessionAtRest /\ InitRepos /\ InitAccounts /\ FormsAtRest

InitLabelEditor ==
    SessionAtRest /\ InitRepos /\ AccountsAtRest /\ InitLabels /\ ProfileAtRest /\ PagesAtRest

Next ==
    \/ \E path \in Pages : PageLoad(path)
    \/ \E path \in Pages : Navigate(path)
    \/ login
    \/ loginWithGoogle
    \/ \E password1, password2 \in Passwords : handleSubmit(password1, password2)
    \/ logout
    \/ SyncCall
    \/ handleConnectGitHub
    \/ \E provider \in { "github", "google" } : handleConnect(provider)
    \/ \E access \in { Null, "", "T1", "T2" }, refresh \in { Null, "", "R1", "R2" },
          fromConnect \in { Null, "true", "false" }, isConnectFlow \in BOOLEAN :
          GitHubCallback(access, refresh, fromConnect, isConnectFlow)
    \/ \E rq \in inflight, data \in IssuedPairs : AuthSuccess(rq, data)
    \/ \E rq \in inflight : CallSuccess(rq)
    \/ \E rq \in inflight, status \in { 400, 401, 500 } : CallFailure(rq, status)

Spec == Init /\ [][Next]_vars

\* the sign-up form with the bodies of its failures
NextSignup ==
    \/ \E path \in PublicPages : Navigate(path)
    \/ \E password1, password2 \in Passwords : handleSubmit(password1, password2)
    \/ \E rq \in inflight, data \in IssuedPairs : AuthSuccess(rq, data)
    \/ \E rq \in inflight, status \in { 0, 400, 401 }, body \in ErrorBodies \cup { NoBody } :
          SignupFailure(rq, status, body)
    \/ logout

SpecSignup == Init /\ [][NextSignup]_vars

SpecRepos == InitReposPages /\ [][NextRepos]_vars

SpecAccounts == InitAccountsPage /\ [][NextAccounts]_vars

SpecLabels == InitLabelEditor /\ [][NextLabels]_vars

InitProfilePage ==
    SessionAtRest /\ InitRepos /\ AccountsAtRest /\ LabelsAtRest /\ InitProfile /\ PagesAtRest

SpecProfile == InitProfilePage /\ [][NextProfile]_vars

InitGitHubPage ==
    /\ SessionAtRest /\ InitRepos /\ AccountsAtRest /\ LabelsAtRest /\ ProfileAtRest
    /\ InitGitHub /\ SubmitAtRest

InitSubmitPage ==
    /\ SessionAtRest /\ InitRepos /\ AccountsAtRest /\ LabelsAtRest /\ ProfileAtRest
    /\ GitHubAtRest /\ InitSubmit

SpecSubmit == InitSubmitPage /\ [][NextSubmit]_vars

SpecGitHub == InitGitHubPage /\ [][NextGitHub]_vars

InitRoutesOnly == InitRoutes /\ InitRepos /\ AccountsAtRest /\ FormsAtRest

SpecRoutes == InitRoutesOnly /\ [][NextRoutes]_vars

SpecDestructive == (InitReposPages \/ InitAccountsPage) /\ [][NextDestructive]_vars

(***************************************************************************)
(* Properties of the session.                                              *)
(***************************************************************************)
AuthUrls == { UrlLogin, UrlRegistration, UrlGoogle }

HasBothTokens == Truthy(storage.access) /\ Truthy(storage.refresh)

\* the task that just ran handled a 401 answer
Answered401 == last.ev = "response" /\ last.status = 401

\* C1: after a 401 answer from an endpoint outside the public allow-list has been
\* handled, neither token is in storage and the browser is at, or on its way to,
\* /login, whatever page the answer arrived on.
C1_Protected401ClearsAndRedirects ==
    (Answered401 /\ ~isPublicEndpoint(last.url)) =>
        /\ storage.access = Null
        /\ storage.refresh = Null
        /\ pathname = "/login" \/ pendingNav = "/login"

\* C1 witness: the 401 arrived on the repositories page of a user who is still
\* flagged as logged in; the tokens are gone and the redirect is under way.
C1_Witness ==
    /\ Answered401 /\ ~isPublicEndpoint(last.url)
    /\ pathname = "/repositories" /\ user
    /\ storage = NoTokens /\ pendingNav = "/login"

C3_FlagIffBothTokens == user <=> HasBothTokens

\* the header the stored access token calls for
BearerOf(store) == IF Truthy(store.access) THEN <<"Bearer", store.access>> ELSE <<>>

\* C4 as stated: every request sent to an endpoint outside the allow-list carries
\* "Bearer <stored access token>", and no request to an allow-listed endpoint
\* carries the header.
C4_EveryProtectedRequestCarriesBearer ==
    \A rq \in last.sent :
        IF isPublicEndpoint(rq.url) THEN rq.auth = <<>>
        ELSE Truthy(storage.access) /\ rq.auth = <<"Bearer", storage.access>>

\* C4 amended: a request sent to an endpoint outside the allow-list carries
\* "Bearer <T>" when an access token T is stored as it is sent and no
\* Authorization header when none is stored; a request to an allow-listed
\* endpoint never carries the header.
C4_BearerWhenTokenStored ==
    \A rq \in last.sent :
        IF isPublicEndpoint(rq.url) THEN rq.auth = <<>> ELSE rq.auth = BearerOf(storage)

\* C4 witness: the login that returned T1 has just resolved and the request the
\* home page sends next carries Bearer T1.
C4_Witness ==
    /\ last.ev = "response" /\ last.url = UrlLogin /\ last.status = 200
    /\ last.data.access = "T1"
    /\ [url |-> UrlSubmissions, auth |-> <<"Bearer", "T1">>] \in last.sent

\* C5: a 401 answer from an allow-listed endpoint reaches the caller as a rejection
\* and changes nothing of the session: tokens, flag and location stay, and no
\* session-expired notice is raised.
C5_Public401LeavesSession ==
    [][ (last'.ev = "response" /\ last'.status = 401 /\ isPublicEndpoint(last'.url)) =>
            /\ last'.rejected
            /\ storage' = storage
            /\ user' = user
            /\ ToastExpired \notin last'.toast
            /\ pathname' = pathname
            /\ pendingNav' = pendingNav
      ]_vars

\* C5 witness: a login was answered 401 while a session was stored, and it is
\* still stored.
C5_Witness ==
    /\ Answered401 /\ last.url = UrlLogin /\ last.rejected
    /\ storage \in IssuedPairs

\* C6: a sign-up submitted with a password shorter than 8 characters, or with two
\* passwords that differ, shows a validation error and sends nothing; tokens and
\* flag stay as they were.
C6_InvalidSignupSendsNothing ==
    [][ (/\ last'.ev = "handleSubmit"
         /\ \/ Len(last'.args[1]) < 8
            \/ last'.args[1] # last'.args[2]) =>
            /\ last'.toast \in { { ToastMismatch }, { ToastTooShort } }
            /\ last'.sent = {}
            /\ inflight' = inflight
            /\ storage' = storage
            /\ user' = user
      ]_vars

\* C6 witness: the form was submitted with the password "short" twice and the
\* length error is shown.
C6_Witness ==
    /\ last.ev = "handleSubmit"
    /\ last.args = <<"short", "short">>
    /\ last.toast = { ToastTooShort }
    /\ last.sent = {}

\* the session as a 401 on a protected request leaves it
ClearedToLogin(store, path, nav) == store = NoTokens /\ (path = "/login" \/ nav = "/login")

\* C13: every 401 answer to a protected request leaves both tokens absent and the
\* destination at login; when the session was already in that state the answer
\* changes nothing of it; and the other requests in flight stay in flight.
C13_ClearingIsIdempotent ==
    [][ Answered401' /\ ~isPublicEndpoint(last'.url) =>
            /\ ClearedToLogin(storage', pathname', pendingNav')
            /\ \E rq \in inflight : rq.url = last'.url /\ inflight' = inflight \ { rq }
            /\ ClearedToLogin(storage, pathname, pendingNav) =>
                   UNCHANGED <<storage, user, pathname, pendingNav>>
      ]_vars

\* C13 witness: a 401 has cleared the session while another protected request,
\* sent with the bearer token, is still in flight.
C13_Witness ==
    /\ Answered401 /\ ~isPublicEndpoint(last.url)
    /\ ClearedToLogin(storage, pathname, pendingNav)
    /\ \E rq \in inflight : ~isPublicEndpoint(rq.url) /\ rq.auth # <<>>

\* C15: for each provider, the Connect button of the accounts page sends the
\* browser to /accounts/<provider>/login/ with process=connect, and the stored
\* credential pair is left as it is.
C15_ConnectNavigatesToProvider ==
    [][ last'.ev = "handleConnect" =>
            /\ last'.url = << "accounts", last'.args[1], "login", "?process=connect" >>
            /\ pendingNav' = last'.args[1]
            /\ storage' = storage
      ]_vars

\* C17: logout leaves neither token in storage and the flag false; from then on
\* the storage stays empty until an auth operation succeeds (login, signup,
\* Google, or the GitHub login callback), and every request sent while it is
\* empty leaves without an Authorization header.
C17_LogoutDestroysCredentials ==
    [][ /\ last'.ev = "logout" => storage' = NoTokens /\ ~user'
        /\ storage' = NoTokens => \A w \in last'.sent : w.auth = <<>>
        /\ (storage = NoTokens /\ storage' # NoTokens) =>
               \/ last'.ev = "response" /\ last'.status = 200 /\ last'.url \in AuthUrls
               \/ last'.ev = "GitHubCallback"
      ]_vars

\* C17 witness: after a logout, with no token stored, a protected request has been
\* sent (the list request that follows a sync answered after the logout), and it
\* carries no Authorization header.
C17_Witness ==
    /\ storage = NoTokens /\ ~user /\ pathname = "/login"
    /\ last.ev = "response" /\ last.sent # {}
    /\ \A w \in last.sent : ~isPublicEndpoint(w.url) /\ w.auth = <<>>

\* the first message of an error body, in the order email[0], password1[0],
\* non_field_errors[0], error; an absent or empty message is not one
Candidates(body) ==
    << FirstOf(body.email), FirstOf(body.password1), FirstOf(body.non_field_errors),
       body.error, ToastSignupFailed >>

\* C20 (under SpecSignup): a failed sign-up shows exactly one message: the first
\* non-empty one of email[0], password1[0], non_field_errors[0] and error, and
\* the fixed text when there is none.
C20_FirstAvailableMessage ==
    [][ (last'.ev = "response" /\ last'.url = UrlRegistration /\ last'.status # 200) =>
            /\ Cardinality(last'.toast) = 1
            /\ \E i \in 1..5 :
                  /\ last'.toast = { Candidates(last'.body)[i] }
                  /\ Candidates(last'.body)[i] \notin { Null, "" }
                  /\ \A j \in 1..(i - 1) : Candidates(last'.body)[j] \in { Null, "" }
      ]_vars

\* C20 witness: the body held password1, non_field_errors and error messages and
\* an empty email list; the password1 message was shown.
C20_Witness ==
    /\ last.ev = "response" /\ last.url = UrlRegistration /\ last.status = 400
    /\ last.body.email = <<>> /\ last.body.password1 = << "weak" >>
    /\ last.body.non_field_errors = << "mismatch" >> /\ last.body.error = "refused"
    /\ last.toast = { "weak" }

\* C21: a protected page is on screen only while the authenticated flag is set
\* and a public page only while it is not; a document loaded at a protected
\* route without the flag ends on /login, one loaded at a public route with the
\* flag ends on /.
C21_RouteGuards ==
    /\ [](/\ pathname \in ProtectedPages => user
          /\ pathname \in PublicPages => ~user)
    /\ [][ last'.ev = "load" =>
             /\ last'.args[1] \in ProtectedPages =>
                   pathname' = IF user' THEN last'.args[1] ELSE "/login"
             /\ last'.args[1] \in PublicPages =>
                   pathname' = IF user' THEN "/" ELSE last'.args[1]
         ]_vars

\* C21 witness: /profile was requested without the flag and /login is shown.
C21_Witness ==
    /\ last.ev = "load" /\ last.args = << "/profile" >>
    /\ ~user /\ pathname = "/login"

\* C22: the GitHub callback writes the tokens only when the URL carries both a
\* non-empty access and a non-empty refresh parameter, and then navigates to
\* /github if from_connect is "true" and to / otherwise; when one is missing it
\* leaves the stored tokens as they were and navigates to /github if the URL
\* contains process=connect and to /login otherwise.
C22_CallbackStoresOnlyPairs ==
    [][ last'.ev = "GitHubCallback" =>
          IF /\ last'.data.access \notin { Null, "" }
             /\ last'.data.refresh \notin { Null, "" }
          THEN /\ storage' = last'.data
               /\ last'.args[3] = IF last'.args[1] = "true" THEN "/github" ELSE "/"
          ELSE /\ storage' = storage
               /\ last'.args[3] = IF last'.args[2] THEN "/github" ELSE "/login"
      ]_vars

\* C22 witness: a callback with an access but no refresh parameter, outside a
\* connect flow, left the stored pair alone and navigated to /login.
C22_Witness ==
    /\ last.ev = "GitHubCallback"
    /\ last.data = [access |-> "T2", refresh |-> Null]
    /\ last.args[1] = Null /\ ~last.args[2] /\ last.args[3] = "/login"
    /\ storage = [access |-> "T1", refresh |-> "R1"]

\* C23: when the GitHub callback stores a token pair in a document that loaded
\* without a stored access token, the authenticated flag is set and the page
\* shown is the one the callback navigated to (/ or /github), not /login.
C23_CallbackAuthenticates ==
    [][ ( /\ last'.ev = "GitHubCallback"
          /\ last'.data.access \notin { Null, "" }
          /\ last'.data.refresh \notin { Null, "" }
          /\ ~last'.args[4] ) =>
            /\ user'
            /\ pathname' = last'.args[3]
            /\ pathname' \in { "/", "/github" }
      ]_vars

\* C23 witness: a connect callback with a token pair arrived in a document
\* without tokens; /github is shown with the flag set.
C23_Witness ==
    /\ last.ev = "GitHubCallback"
    /\ last.data = [access |-> "T2", refresh |-> "R2"]
    /\ last.args[1] = "true" /\ ~last.args[4]
    /\ user /\ pathname = "/github"

\* C24 (under SpecRepos): syncing[r] is set exactly while a sync request of the
\* mounted page for repository r is unanswered; in particular no repository is
\* flagged once every sync request has completed, and the completion of one
\* repository's sync leaves the flags of the others alone.
C24_SyncingFlagTracksRequests ==
    \A r \in RepoIds :
        SyncDisabled(r) <=> \E c \in calls : c.kind = "sync" /\ c.repo = r /\ c.live

\* C25: a 401 answer to a request that was sent before the stored credential
\* pair was installed (its Authorization header is not the stored access token)
\* leaves the stored pair in place.
C25_Stale401KeepsNewPair ==
    [][ \A rq \in inflight \ inflight' :
          ( /\ last'.ev = "response" /\ last'.status = 401 /\ last'.url = rq.url
            /\ storage.access \notin { Null, "" }
            /\ rq.auth # << "Bearer", storage.access >> ) =>
              storage' = storage
      ]_vars

\* the repository-list requests of the GitHub page that are not answered yet
ReposRequests == { c \in ghCalls : c.kind = "repos" }

\* C26 (under SpecGitHub): when a repository list has arrived and no list request
\* is outstanding, the list on screen is the one of the selected account; and an
\* import posts the github_uid of the account the imported repository belongs to.
C26_ListOfSelectedAccount ==
    /\ []( ( /\ ReposRequests = {}
             /\ lastGh.ev = "reposAnswered" /\ lastGh.status = 200 ) =>
               \A repo \in repos : repo.owner = selectedAccount )
    /\ [][ lastGh'.ev = "handleImportRepo" => lastGh'.uid = lastGh'.repo.owner ]_vars

\* the edit form is reset: the fields are those of the last loaded or saved
\* profile, no picture file is pending, the preview is the original picture URL
\* and the editing mode is off
ProfileReset ==
    /\ originalProfile # <<>>
    /\ profile = [originalProfile[1] EXCEPT !.profile_picture = NoFile]
    /\ preview = originalProfile[1].profile_picture_url
    /\ ~isEditing

\* C27 (under SpecProfile): once handleCancel has run and the callbacks pending
\* at that moment (the onloadend of a FileReader) have run too, the form is reset.
C27_CancelResets ==
    [][ ( /\ \/ lastForm'.ev = "handleCancel"
             \/ lastForm.ev = "handleCancel" /\ lastForm'.ev = "onloadend"
          /\ readers' = {} /\ profileCalls' = {}
          /\ originalProfile' # <<>> ) => ProfileReset'
      ]_vars

\* C28 (under SpecRoutes): with the flag unchanged, whatever route is requested
\* the guards and the catch-all route redirect at most twice, and the location
\* reached by the second redirect renders.
C28_RedirectsSettle ==
    /\ last.args[2] <= 2
    /\ last.args[2] = 2 => Renders(pathname, user)
    /\ Renders(Route(Route(last.args[1], user), user), user)

\* C28 witness: an unknown route was requested without the flag; the catch-all
\* route redirected to / and ProtectedRoute to /login, which renders.
C28_Witness ==
    /\ last.ev = "redirect" /\ last.args[1] = "/nowhere" /\ last.args[2] = 2
    /\ ~user /\ pathname = "/login" /\ Renders(pathname, user)

\* C29 (under SpecSubmit): when a list answer has been shown and no request is
\* outstanding, the page number is between 1 and max(1, totalPages) and the
\* list on screen is the one of that page number under the current filters.
C29_PageWithinRangeAndShown ==
    ( /\ lastSub.ev = "fetchSubmissions" /\ lastSub.status = 200
      /\ subCalls = {} ) =>
        /\ 1 <= page /\ page <= MaxOf(1, totalPages)
        /\ submissions = Results(srvSubmissions, filters.language, page)

(***************************************************************************)
(* Properties of the repository pages (under SpecRepos).                   *)
(***************************************************************************)
\* the changes of sync status that one step makes on the backend
StatusChanges ==
    { <<srvRepos[r].status, srvRepos'[r].status>> :
        r \in { x \in DOMAIN srvRepos \cap DOMAIN srvRepos' :
                  srvRepos[x].status # srvRepos'[x].status } }

\* C7 as stated: the sync status of a repository only moves pending -> syncing,
\* syncing -> success and syncing -> failed.
C7_OnlyFirstSyncTransitions ==
    [][ StatusChanges \subseteq
            { <<"pending", "syncing">>, <<"syncing", "success">>, <<"syncing", "failed">> }
      ]_vars

\* C7 amended: the status leaves pending only for syncing and never returns to
\* pending; every sync request, from whatever status the Sync button was pressed
\* in, moves it to syncing, and every completion moves it to success or failed
\* (from syncing, or from the outcome of an overlapping sync of the same
\* repository).
C7_SyncTransitions ==
    [][ StatusChanges \subseteq
            { <<"pending", "syncing">>, <<"success", "syncing">>, <<"failed", "syncing">>,
              <<"syncing", "success">>, <<"syncing", "failed">>,
              <<"success", "failed">>, <<"failed", "success">> }
      ]_vars

\* C7 witness: a repository that was synced with success is syncing again.
C7_Witness ==
    \E r \in DOMAIN srvRepos :
        /\ srvRepos[r].status = "syncing"
        /\ srvRepos[r].last_synced # Null
        /\ \E c \in calls : c.kind = "sync" /\ c.repo = r /\ c.phase = "running"

\* a record with status success has last_synced, one with status failed has
\* last_sync_error
Recorded(rec) ==
    /\ rec.status \in { "pending", "syncing", "success", "failed" }
    /\ rec.status = "success" => rec.last_synced # Null
    /\ rec.status = "failed" => rec.last_sync_error # Null

\* C8: on the backend and in the list the page shows, a repository with status
\* success has lastSyncedAt and one with status failed has lastSyncError; a
\* repository enters the backend's records as pending.
C8_OutcomeIsRecorded ==
    /\ [](/\ \A r \in DOMAIN srvRepos : Recorded(srvRepos[r])
          /\ \A r \in DOMAIN repositories : Recorded(repositories[r]))
    /\ [][ \A r \in DOMAIN srvRepos' \ DOMAIN srvRepos : srvRepos'[r].status = "pending" ]_vars

\* C8 witness: the page lists a repository as failed, with its error, that
\* also has the date of an earlier successful sync.
C8_Witness ==
    \E r \in DOMAIN repositories :
        /\ repositories[r].status = "failed"
        /\ repositories[r].last_sync_error # Null
        /\ repositories[r].last_synced # Null

\* the call is answered for its component in this step
Handled(c) == c \notin calls' /\ [c EXCEPT !.live = FALSE] \notin calls'

\* C9: when the answer to a failed sync has been handled, the page shows the
\* repository as failed, with lastSyncError.
C9_FailedSyncIsShown ==
    [][ \A c \in calls :
            (c.kind = "sync" /\ c.phase = "done" /\ ~c.ok /\ c.live /\ Handled(c)) =>
                /\ c.repo \in DOMAIN repositories'
                /\ repositories'[c.repo].status = "failed"
                /\ repositories'[c.repo].last_sync_error # Null
      ]_vars

\* a list answer that is on its way back to the mounted page
Arriving(c) == c.kind = "fetch" /\ c.phase = "done" /\ c.ok /\ c.live

\* C11: the list the page shows is the one of the list answer that arrived last,
\* whatever the order in which the syncs and their list requests were issued:
\* every list answer that arrives replaces the shown list by its own content, and
\* nothing else changes the shown list (entering the page again empties it).
C11_LastResponseWins ==
    [][ /\ \A c \in calls : (Arriving(c) /\ Handled(c)) => repositories' = c.data
        /\ repositories' # repositories =>
              \/ \E c \in calls : Arriving(c) /\ Handled(c)
              \/ repositories' = Empty
      ]_vars

\* C11 witness: two list answers that followed two syncs of the same repository
\* are on their way back with different statuses for it.
C11_Witness ==
    \E c, d \in calls :
        /\ c # d /\ Arriving(c) /\ Arriving(d)
        /\ \E r \in DOMAIN c.data \cap DOMAIN d.data : c.data[r].status # d.data[r].status

\* a sync of the repository is in progress: the page awaits the answer to one, or
\* the status it shows is syncing
SyncInProgress(r) ==
    \/ \E c \in calls : c.kind = "sync" /\ c.repo = r /\ c.live
    \/ r \in DOMAIN repositories /\ repositories[r].status = "syncing"

C10_UnlinkNotFoundMutatesNothing ==
    [][ /\ (/\ lastAcct'.ev = "server" /\ lastAcct'.kind = "unlink"
            /\ lastAcct'.uid \notin srvAccounts[lastAcct'.provider]) =>
               /\ lastAcct'.error = "NotFound"
               /\ srvAccounts' = srvAccounts
               /\ accounts' = accounts
        /\ (/\ lastAcct'.ev = "response" /\ lastAcct'.kind = "unlink"
            /\ lastAcct'.error = "NotFound") =>
               /\ srvAccounts' = srvAccounts
               /\ accounts' = accounts
      ]_vars

\* C10 witness: the NotFound answer has been handled; the account is not linked
\* on the backend and the page still lists it.
C10_Witness ==
    /\ lastAcct.ev = "response" /\ lastAcct.kind = "unlink" /\ lastAcct.error = "NotFound"
    /\ lastAcct.uid \notin srvAccounts[lastAcct.provider]
    /\ lastAcct.uid \in accounts[lastAcct.provider]

(***************************************************************************)
(* Properties of the destructive operations (under SpecDestructive).       *)
(***************************************************************************)
\* the requests of `kind` that this step sends
SentNow(before, after, kind) ==
    { c \in after \ before :
        /\ c.kind = kind /\ c.phase = "sent"
        /\ ~\E b \in before : b.id = c.id /\ b.kind = kind /\ b.phase = "sent" }

\* C14: a DELETE of a repository and an unlink of an account are sent only by an
\* invocation whose confirmation dialog was accepted, for the repository or the
\* account it was invoked on; an invocation whose dialog was declined sends
\* nothing and leaves the repository list and the linked accounts as they were.
C14_DestructiveOnlyAfterConfirm ==
    [][ /\ \A c \in SentNow(calls, calls', "delete") :
               last'.ev = "handleDelete" /\ last'.args = <<c.repo, TRUE>>
        /\ (last'.ev = "handleDelete" /\ last' # last /\ last'.args[2] = FALSE) =>
               UNCHANGED <<calls, repositories, srvRepos>>
        /\ \A c \in SentNow(acctCalls, acctCalls', "unlink") :
               /\ lastAcct'.ev = "handleUnlink"
               /\ lastAcct'.provider = c.provider /\ lastAcct'.uid = c.uid
        /\ lastAcct'.ev = "declined" => UNCHANGED <<acctCalls, accounts, srvAccounts>>
      ]_vars

\* C14 witness: the dialog of the Remove button was declined; the repository is
\* still listed and recorded, and nothing is in flight.
C14_Witness ==
    /\ last.ev = "handleDelete" /\ last.args[2] = FALSE
    /\ last.args[1] \in DOMAIN repositories /\ last.args[1] \in DOMAIN srvRepos
    /\ calls = {}

(***************************************************************************)
(* Properties of the label editor (under SpecLabels).                      *)
(***************************************************************************)
\* C16: whatever the sequence of startEditingLabel, edits of the input, saveLabel
\* and cancelEditing, no request to the update-account-label endpoint carries a
\* label longer than 100 characters: the input never holds one.
C16_NoOversizedLabelSent ==
    /\ labelValue <= MaxLabelLength
    /\ \A c \in labelCalls : c.kind = "label" => c.label <= MaxLabelLength

\* C16 witness: the label of an account listed with a shorter one has been edited,
\* and a label of exactly 100 characters is on its way to the endpoint.
C16_Witness ==
    \E c \in labelCalls :
        /\ c.kind = "label" /\ c.phase = "sent" /\ c.label = MaxLabelLength
        /\ labels[c.key] < MaxLabelLength

(***************************************************************************)
(* No automatic retry (under SpecRepos).                                   *)
(***************************************************************************)
\* the answers that this step hands to their handler
HandledNow == { c \in calls : c.phase = "done" /\ Handled(c) }

\* C18: a step sends at most one sync or import request, and only as the user
\* presses Sync or Import, never while an answer is handled; and handling the
\* answer to a sync, an import or a list request that failed sends no request at
\* all: the operation is abandoned.
C18_NoAutomaticRetry ==
    [][ /\ Cardinality(SentNow(calls, calls', "sync") \cup SentNow(calls, calls', "import")) <= 1
        /\ HandledNow # {} =>
              SentNow(calls, calls', "sync") \cup SentNow(calls, calls', "import") = {}
        /\ \A c \in HandledNow : ~c.ok => calls' = calls \ { c }
      ]_vars

\* C18 witness: a sync has failed on the backend and its answer has been handled
\* by the page (the flag of the repository is reset); no request is outstanding.
C18_Witness ==
    /\ repoPage = "/repositories" /\ calls = {}
    /\ \E r \in DOMAIN syncing \cap DOMAIN srvRepos \cap DOMAIN repositories :
          /\ ~syncing[r]
          /\ srvRepos[r].status = "failed"
          /\ repositories[r].status # "failed"

(***************************************************************************)
(* Properties of the profile page (under SpecProfile).                     *)
(***************************************************************************)
\* the files that are not images (doc.pdf, and a file whose type is the bare word
\* "image") or are larger than 5 MB (big.png, one byte over)
RejectedFiles == { f \in Files : f.name \in { "big.png", "doc.pdf", "notype" } }

\* C19: selecting a file that is not an image or is larger than 5 MB shows an
\* error and changes neither the profile state nor the preview and sends nothing;
\* and no profile update request carries such a file.
C19_RejectedPictureNeverKept ==
    /\ [](/\ profile.profile_picture \notin RejectedFiles
          /\ \A c \in profileCalls : c.form.profile_picture \notin RejectedFiles)
    /\ [][ (lastForm'.ev = "handleChange" /\ lastForm'.file \in RejectedFiles) =>
               /\ lastForm'.toast # ""
               /\ UNCHANGED <<profile, preview, profileCalls>>
         ]_vars

\* C19 witness: the picture of 5 MB + 1 byte has just been rejected with its
\* error; the picture selected before it, of exactly 5 MB, is still the selected
\* one and still the one previewed.
C19_Witness ==
    /\ lastForm.ev = "handleChange" /\ lastForm.file.name = "big.png"
    /\ lastForm.toast = "Image size should be less than 5MB"
    /\ profile.profile_picture.name = "limit.png"
    /\ preview = "limit.png"

====
